---- MODULE Spec2Model ----
(***************************************************************************)
(* Model of the mesh ingestion and cleanup code of trophy                  *)
(* (models/mesh.go: Mesh, the cleanup stages, STLLoader).                  *)
(*                                                                         *)
(* Conventions.                                                            *)
(*  - A Vec3 is a triple <<x, y, z>> of integers: every coordinate of the  *)
(*    model is a whole number of length units, so sums, differences and    *)
(*    cross products are exact.                                            *)
(*  - A normal is a record [v, q] standing for the vector v / sqrt(q).     *)
(*    A vector read from a file has q = 1; Normalize yields the direction  *)
(*    of v reduced to lowest terms with q = |v|^2.                         *)
(*  - Vertex indices are 0-based as in the Go code; sequences are 1-based, *)
(*    so vertex i is Vertices[i + 1].                                      *)
(***************************************************************************)
EXTENDS Integers, Sequences, FiniteSets, TLC

\* ------------------------------------------------------------------ bounds
\* literal meshes: number of vertices and largest number of faces
MaxVerts == 4
MaxFaces == 3
\* binary buffers: largest number of whole triangle records
MaxTris == 1
\* text buffers: largest number of lines and of accepted vertex lines
MaxLines == 6
MaxTextVerts == 3
MaxMeshVerts == 3
MaxMeshFaces == 1
MaxEdits == 4
MaxObjLines == 4
MaxObjPositions == 3
MaxCorners == 3

VARIABLES
    opts,          \* the STLLoader's option fields
    data,          \* the buffer handed to LoadBytes
    format,        \* what isBinarySTL answered for data
    pc,            \* position of the program
    Name,          \* Mesh.Name
    Vertices,      \* Mesh.Vertices: sequence of MeshVertex
    Faces,         \* Mesh.Faces: sequence of Face
    BoundsMin,     \* Mesh.BoundsMin
    BoundsMax,     \* Mesh.BoundsMax
    vertexMap,     \* loadBinary/loadASCII: quantizedKey -> vertex index
    offset,        \* loadBinary: byte offset of the next read
    triDone,       \* loadBinary: iterations of the record loop completed
    lineNum,       \* loadASCII: lineNum
    currentNormal, \* loadASCII: currentNormal
    faceVerts,     \* loadASCII: faceVerts
    inFacet,       \* loadASCII: inFacet
    inLoop,        \* loadASCII: inLoop
    err,           \* the error returned by the load, NoErr if none
    lastOp,        \* name of the last mesh operation that returned
    removed,       \* return value of the last cleanup stage
    cleanRuns,     \* consecutive CleanMesh calls that have returned (capped at 2)
    pairCase,      \* history: what the last CleanMesh call was handed, see
                   \*          PairCaseOf
    loopArmed,     \* history: an `outer loop` was read since the last `facet`,
                   \*          with no `endloop` or `endfacet` after it
    facetSrc,      \* history: declared normal and corner positions of the
                   \*          facet being read
    srcTris,       \* history: per emitted face, the source triangle and the
                   \*          vertex indices given to its corners
    cornersRead,   \* history: corners welded so far (binary) or vertex lines
                   \*          accepted so far (text)
    positionsRead, \* history: the set of corner positions read so far
    lastLine,      \* history: what the text line read last was, "none"
                   \*          outside the scanner loop
    Materials,     \* Mesh.Materials
    clone,         \* the mesh returned by m.Clone(), NoClone before the call
    positions,     \* OBJLoader.Load: positions
    edits,         \* number of direct edits and calls made on the meshes so far
    gridUnit, \* length of one coordinate step: "one" or "fine" (see AreaAboveMin)
    scanCap, \* how many lines and vertex lines of a text buffer are followed
    arch, \* the build target, which fixes what int64(f) gives for an f out of range
    parked  \* the locals of a second load whose steps interleave with this one, NoFrame if there is none

meshVars  == <<Name, Vertices, Faces, BoundsMin, BoundsMax>>
inVars    == <<opts, data, format>>
binVars   == <<offset, triDone>>
txtVars   == <<lineNum, currentNormal, faceVerts, inFacet, inLoop>>
histVars  == <<loopArmed, facetSrc, srcTris, cornersRead>>
obsVars   == <<positionsRead, lastLine>>
opVars    == <<lastOp, removed, cleanRuns, pairCase>>
extVars   == <<Materials, clone, positions, edits, gridUnit, scanCap, arch, parked>>
vars      == <<inVars, pc, meshVars, vertexMap, binVars, txtVars, err, opVars, histVars,
               obsVars, extVars>>

\* ------------------------------------------------------------ math3d.Vec3
Zero3 == <<0, 0, 0>>

V3Add(a, b) == <<a[1] + b[1], a[2] + b[2], a[3] + b[3]>>

V3Sub(a, b) == <<a[1] - b[1], a[2] - b[2], a[3] - b[3]>>

V3Neg(a) == <<0 - a[1], 0 - a[2], 0 - a[3]>>

V3Dot(a, b) == a[1] * b[1] + a[2] * b[2] + a[3] * b[3]

V3Cross(a, b) ==
    << a[2] * b[3] - a[3] * b[2],
       a[3] * b[1] - a[1] * b[3],
       a[1] * b[2] - a[2] * b[1] >>

MinI(x, y) == IF x < y THEN x ELSE y
MaxI(x, y) == IF x > y THEN x ELSE y
AbsI(x) == IF x < 0 THEN 0 - x ELSE x

V3Min(a, b) == <<MinI(a[1], b[1]), MinI(a[2], b[2]), MinI(a[3], b[3])>>

V3Max(a, b) == <<MaxI(a[1], b[1]), MaxI(a[2], b[2]), MaxI(a[3], b[3])>>

RECURSIVE Gcd(_, _)
Gcd(x, y) == IF y = 0 THEN x ELSE Gcd(y, x % y)

\* a normal read from a file or accumulated from such: the vector v itself
RawN(v) == [v |-> v, q |-> 1]

ZeroN == RawN(Zero3)

\* Vec3.Add on normals (same scale on both sides)
NAdd(a, b) == [v |-> V3Add(a.v, b.v), q |-> a.q]

\* Vec3.Normalize: the zero vector is returned unchanged, never divided
Normalize(n) ==
    IF n.v = Zero3 THEN ZeroN
    ELSE LET g == Gcd(Gcd(AbsI(n.v[1]), AbsI(n.v[2])), AbsI(n.v[3]))
             r == <<n.v[1] \div g, n.v[2] \div g, n.v[3] \div g>>
         IN  [v |-> r, q |-> V3Dot(r, r)]

\* ------------------------------------------------------------------- Mesh
MeshVertex(pos, normal) == [Position |-> pos, Normal |-> normal, UV |-> <<0, 0>>]

Face(v0, v1, v2) == [V |-> <<v0, v1, v2>>, Material |-> -1]

PosOf(V, i) == V[i + 1].Position

\* edge1.Cross(edge2) of a face, as every stage computes it
FaceCross(V, f) ==
    V3Cross(V3Sub(PosOf(V, f.V[2]), PosOf(V, f.V[1])),
            V3Sub(PosOf(V, f.V[3]), PosOf(V, f.V[1])))

RECURSIVE BoundsFold(_, _, _, _)
BoundsFold(V, i, lo, hi) ==
    IF i > Len(V) THEN <<lo, hi>>
    ELSE BoundsFold(V, i + 1, V3Min(lo, V[i].Position), V3Max(hi, V[i].Position))

\* a bounding box grown from the bounds the mesh had before the call
CalculateBoundsFromPrior(V, lo, hi) ==
    IF Len(V) = 0 THEN <<lo, hi>>
    ELSE BoundsFold(V, 1, lo, hi)

\* Mesh.CalculateBounds: <<BoundsMin, BoundsMax>> after the call
CalculateBounds(V, lo, hi) ==
    IF Len(V) = 0 THEN <<lo, hi>>
    ELSE BoundsFold(V, 2, V[1].Position, V[1].Position)

\* a key that keeps the indices in the order of the face
faceKeyUnsorted(v0, v1, v2) == <<v0, v1, v2>>

\* faceKey: the three indices sorted ascending by three compare-and-swaps
faceKey(v0, v1, v2) ==
    LET a1 == IF v0 > v1 THEN v1 ELSE v0
        b1 == IF v0 > v1 THEN v0 ELSE v1
        b2 == IF b1 > v2 THEN v2 ELSE b1
        c2 == IF b1 > v2 THEN b1 ELSE v2
        a3 == IF a1 > b2 THEN b2 ELSE a1
        b3 == IF a1 > b2 THEN a1 ELSE b2
    IN  <<a3, b3, c2>>

KeyOf(f) == faceKey(f.V[1], f.V[2], f.V[3])

RECURSIVE DedupFold(_, _, _, _)
DedupFold(F, i, seen, kept) ==
    IF i > Len(F) THEN kept
    ELSE IF KeyOf(F[i]) \in seen
         THEN DedupFold(F, i + 1, seen, kept)
         ELSE DedupFold(F, i + 1, seen \cup {KeyOf(F[i])}, Append(kept, F[i]))

\* Mesh.DeduplicateFaces: the faces kept (first face of every key)
DedupKept(F) == IF Len(F) = 0 THEN F ELSE DedupFold(F, 1, {}, <<>>)

\* the test passing for normals that point the same way
OpposingNormalsSameSide(ci, cj) ==
    LET d == V3Dot(ci, cj)
    IN  /\ d > 0
        /\ 10000 * d * d > 9801 * V3Dot(ci, ci) * V3Dot(cj, cj)

\* dot < -0.99 of the two normalized cross products ci, cj
OpposingNormals(ci, cj) ==
    LET d == V3Dot(ci, cj)
    IN  /\ d < 0
        /\ 10000 * d * d > 9801 * V3Dot(ci, ci) * V3Dot(cj, cj)

\* groups[key]: indices (1-based, ascending) of the faces with that key
GroupOf(F, key) == {i \in 1..Len(F) : KeyOf(F[i]) = key}

RECURSIVE SetToSeq(_)
SetToSeq(S) ==
    IF S = {} THEN <<>>
    ELSE LET m == CHOOSE x \in S : \A y \in S : x <= y
         IN  <<m>> \o SetToSeq(S \ {m})

\* inner loop over j: first partner of L[i] not yet marked, or 0
RECURSIVE FirstOpposing(_, _, _, _, _, _)
FirstOpposing(V, F, L, i, j, rem) ==
    IF j > Len(L) THEN 0
    ELSE IF L[j] \in rem THEN FirstOpposing(V, F, L, i, j + 1, rem)
    ELSE IF OpposingNormals(FaceCross(V, F[L[i]]), FaceCross(V, F[L[j]])) THEN j
    ELSE FirstOpposing(V, F, L, i, j + 1, rem)

\* outer loop over i within one group
RECURSIVE PairScan(_, _, _, _, _)
PairScan(V, F, L, i, rem) ==
    IF i > Len(L) THEN rem
    ELSE IF L[i] \in rem THEN PairScan(V, F, L, i + 1, rem)
    ELSE LET j == FirstOpposing(V, F, L, i, i + 1, rem)
         IN  IF j = 0 THEN PairScan(V, F, L, i + 1, rem)
             ELSE PairScan(V, F, L, i + 1, rem \cup {L[i], L[j]})

\* loop over the groups in the order the map iteration yields them; order
\* lists the keys of the groups of two or more faces
RECURSIVE GroupScan(_, _, _, _, _)
GroupScan(V, F, order, k, rem) ==
    IF k > Len(order) THEN rem
    ELSE GroupScan(V, F, order, k + 1,
                   PairScan(V, F, SetToSeq(GroupOf(F, order[k])), 1, rem))

RECURSIVE FilterOut(_, _, _, _)
FilterOut(F, i, rem, kept) ==
    IF i > Len(F) THEN kept
    ELSE FilterOut(F, i + 1, rem, IF i \in rem THEN kept ELSE Append(kept, F[i]))

\* Mesh.RemoveInternalFaces: the faces kept, for one iteration order of groups
InternalKept(V, F, order) ==
    IF Len(F) = 0 THEN F
    ELSE LET toRemove == GroupScan(V, F, order, 1, {})
         IN  IF toRemove = {} THEN F ELSE FilterOut(F, 1, toRemove, <<>>)

Keys(F) == {KeyOf(F[i]) : i \in 1..Len(F)}

\* the keys whose group the loop does not skip (len(faceList) >= 2)
PairKeys(F) == {k \in Keys(F) : Cardinality(GroupOf(F, k)) >= 2}

\* the orders in which the range over the map may visit those groups; the
\* groups of one face are skipped wherever they come, so they are left out
KeyOrders(F) ==
    {o \in [1..Cardinality(PairKeys(F)) -> PairKeys(F)] :
        \A a, b \in 1..Cardinality(PairKeys(F)) : a # b => o[a] # o[b]}

\* the test with the threshold applied to the magnitude of the cross product
\* instead of to half of it
AreaAboveMinByMagnitude(c) ==
    IF gridUnit = "fine" THEN 225 * V3Dot(c, c) > 100 ELSE V3Dot(c, c) > 0

\* area := cross.Len() * 0.5; area > minArea (1e-10).  With S the integer
\* |c|^2 of the model: where one coordinate step is 1, |cross|^2 = S and the
\* area exceeds 1e-10 exactly when S is not zero; where one step is
\* sqrt(1.5e-10) ("fine"), |cross|^2 = 2.25e-20 * S, so area^2 > 1e-20 is
\* 2.25 * S > 4.
AreaAboveMin(c) ==
    IF gridUnit = "fine" THEN 225 * V3Dot(c, c) > 400 ELSE V3Dot(c, c) > 0

DegenerateKeepFace(V, f) ==
    /\ ~(f.V[1] = f.V[2] \/ f.V[2] = f.V[3] \/ f.V[1] = f.V[3])
    /\ AreaAboveMin(FaceCross(V, f))

RECURSIVE DegenerateFold(_, _, _, _)
DegenerateFold(V, F, i, kept) ==
    IF i > Len(F) THEN kept
    ELSE DegenerateFold(V, F, i + 1,
                        IF DegenerateKeepFace(V, F[i]) THEN Append(kept, F[i]) ELSE kept)

\* Mesh.RemoveDegenerateFaces: the faces kept
DegenerateKept(V, F) == IF Len(F) = 0 THEN F ELSE DegenerateFold(V, F, 1, <<>>)

Referenced(F) == UNION {{F[i].V[1], F[i].V[2], F[i].V[3]} : i \in 1..Len(F)}

\* newIndex[i] for a referenced vertex i: referenced vertices before it
NewIndex(F, i) == Cardinality({j \in Referenced(F) : j < i})

RECURSIVE CompactFold(_, _, _, _)
CompactFold(V, F, i, acc) ==
    IF i > Len(V) THEN acc
    ELSE CompactFold(V, F, i + 1,
                     IF (i - 1) \in Referenced(F) THEN Append(acc, V[i]) ELSE acc)

\* a compaction that drops the vertices but leaves the face indices alone
UnreferencedNoRemap(V, F) ==
    IF Len(F) = 0 \/ Len(V) = 0 THEN [Vertices |-> V, Faces |-> F]
    ELSE [Vertices |-> CompactFold(V, F, 1, <<>>), Faces |-> F]

\* Mesh.RemoveUnreferencedVertices: vertex list and face list after the call
Unreferenced(V, F) ==
    IF Len(F) = 0 \/ Len(V) = 0 THEN [Vertices |-> V, Faces |-> F]
    ELSE [Vertices |-> CompactFold(V, F, 1, <<>>),
          Faces |-> [i \in 1..Len(F) |->
                        [F[i] EXCEPT !.V = << NewIndex(F, F[i].V[1]),
                                               NewIndex(F, F[i].V[2]),
                                               NewIndex(F, F[i].V[3]) >>]]]

\* CleanMesh with duplicate removal ahead of internal-face removal
CleanDedupFirst(V, F, order) ==
    LET f1 == DegenerateKept(V, F)
        f2 == DedupKept(f1)
        f3 == InternalKept(V, f2, CHOOSE o \in KeyOrders(f2) : TRUE)
        u  == Unreferenced(V, f3)
    IN  [Vertices |-> u.Vertices, Faces |-> u.Faces, removed |-> Len(F) - Len(f3)]

\* CleanMesh with the vertex compaction ahead of the face stages
CleanCompactFirst(V, F, order) ==
    LET u  == Unreferenced(V, F)
        f1 == DegenerateKept(u.Vertices, u.Faces)
        f2 == InternalKept(u.Vertices, f1, CHOOSE o \in KeyOrders(f1) : TRUE)
        f3 == DedupKept(f2)
    IN  [Vertices |-> u.Vertices, Faces |-> f3, removed |-> Len(F) - Len(f3)]

\* Mesh.CleanMesh: the four stages in order; order is the map iteration
\* order of RemoveInternalFaces over the keys of the faces it is handed
Clean(V, F, order) ==
    LET f1 == DegenerateKept(V, F)
        f2 == InternalKept(V, f1, order)
        f3 == DedupKept(f2)
        u  == Unreferenced(V, f3)
    IN  [Vertices |-> u.Vertices, Faces |-> u.Faces,
         removed |-> (Len(F) - Len(f1)) + (Len(f1) - Len(f2)) + (Len(f2) - Len(f3))]


\* -------------------------------------------------------------- constants
NoErr == [msg |-> "", line |-> 0, expected |-> 0, actual |-> 0]

NoOpts == [SmoothNormals |-> FALSE, NoDedupe |-> FALSE, CleanMesh |-> FALSE,
           MergeTolerance |-> 0]

NoData == [len |-> 0, prefix |-> "other", count |-> [hi |-> 0, lo |-> 0]]

NoFacet == [declared |-> FALSE, n |-> Zero3, p |-> <<>>]

\* the value of parked while a single load runs
NoFrame == [pc |-> "none"]

\* the value of clone while m.Clone() has not been called.  aliasV / aliasF
\* say that the clone's Vertices / Faces slice shares its backing array with
\* the slice of m.
NoClone == [exists |-> FALSE, Name |-> "", Vertices |-> <<>>, Faces |-> <<>>,
            Materials |-> <<>>, BoundsMin |-> Zero3, BoundsMax |-> Zero3,
            aliasV |-> FALSE, aliasF |-> FALSE]

\* what a slice of the length of old shows after the elements of its backing
\* array have been overwritten with those of new
Overlay(old, new) ==
    [i \in 1..Len(old) |-> IF i <= Len(new) THEN new[i] ELSE old[i]]

\* the other mesh after elements of this mesh's Vertices have been written
\* in place, the list now being V
VertexWrites(c, V) ==
    IF c.exists /\ c.aliasV THEN [c EXCEPT !.Vertices = Overlay(@, V)] ELSE c

\* the other mesh after elements of this mesh's Faces have been written in
\* place, the list now being F
FaceWrites(c, F) ==
    IF c.exists /\ c.aliasF THEN [c EXCEPT !.Faces = Overlay(@, F)] ELSE c

\* the other mesh after this mesh's Vertices / Faces field has been assigned
\* a newly made slice
NewVerticesArray(c) == [c EXCEPT !.aliasV = FALSE]

NewFacesArray(c) == [c EXCEPT !.aliasF = FALSE]

\* the record kept per emitted face: the normal the source declared for it (if
\* any), the positions of its first three corners in source order and the
\* vertex indices those corners were given
SrcTri(declared, n, p, idx) ==
    [declared |-> declared, n |-> n,
     p |-> <<p[1], p[2], p[3]>>, idx |-> <<idx[1], idx[2], idx[3]>>]

EmptyMap == [k \in {} |-> 0]

\* the i-th point of the model, alternating along the x and the y axis:
\* (0,0,0) (1,0,0) (0,1,0) (2,0,0) (0,2,0) ...
PointAt(i) == IF i % 2 = 1 THEN <<(i + 1) \div 2, 0, 0>> ELSE <<0, i \div 2, 0>>

\* index triples for literal faces: the sets of three indices that span at
\* most four consecutive vertices, each in both windings (smallest index
\* first), and one triple with a repeated index
FaceChoices(n) ==
    {t \in (0..(n - 1)) \X (0..(n - 1)) \X (0..(n - 1)) :
        \/ /\ t[1] < t[2] /\ t[1] < t[3] /\ t[2] # t[3]
           /\ t[2] <= t[1] + 3 /\ t[3] <= t[1] + 3
        \/ t = <<0, 0, 1>>}

\* --------------------------------------------------------------- uint32
\* A uint32 is a record [hi, lo] of its two 16-bit halves, so that products
\* taken modulo 2^32 stay inside the range of TLC's integers.
U32(n) == [hi |-> (n \div 65536) % 65536, lo |-> n % 65536]

\* x*50 in uint32 arithmetic
U32Mul50(x) ==
    LET l == x.lo * 50
    IN  [hi |-> (x.hi * 50 + l \div 65536) % 65536, lo |-> l % 65536]

\* x + n in uint32 arithmetic, for 0 <= n < 65536
U32Add(x, n) ==
    LET l == x.lo + n
    IN  [hi |-> (x.hi + l \div 65536) % 65536, lo |-> l % 65536]

U32Less(x, y) == x.hi < y.hi \/ (x.hi = y.hi /\ x.lo < y.lo)

\* expectedSize := 84 + triCount*50, as the Go code evaluates it (uint32)
expectedSize(triCount) == U32Add(U32Mul50(triCount), 84)

\* the value of a uint32 whose upper half is below 2^15
U32Int(x) == x.hi * 65536 + x.lo

\* -------------------------------------------------------------- STLLoader
\* binary.LittleEndian.Uint32(data[80:84])
triCountOf(d) == d.count

\* isBinarySTL(data)
isBinarySTL(d) ==
    IF d.len < 84 THEN FALSE
    ELSE IF d.prefix = "solid"
         THEN U32(d.len) = expectedSize(triCountOf(d))
         ELSE TRUE

\* math.Round of x / t for whole x and t > 0: halves go away from zero
RoundDiv(x, t) ==
    IF x >= 0 THEN (2 * x + t) \div (2 * t) ELSE 0 - ((2 * (0 - x) + t) \div (2 * t))

\* the largest whole x with x * 10^12 <= 2^63 - 1
Int64Limit == 9223372

\* int64(math.Round(x * 1e12)) in units of 10^12.  Go leaves the result of
\* converting a float outside the range of int64 to the implementation:
\* amd64 gives the least int64 for every such value, arm64 the nearest end
\* of the range.  The ends are written as -Int64Limit - 1 and Int64Limit + 1.
ToInt64(x) ==
    IF x >= -Int64Limit /\ x <= Int64Limit THEN x
    ELSE IF arch = "arm64" /\ x > 0 THEN Int64Limit + 1
    ELSE -Int64Limit - 1

\* quantizePosition(pos, tolerance).  A tolerance <= 0 is replaced by 1e-12;
\* the coordinates of the model are whole numbers, so on that grid the key
\* of x is x * 10^12, written here in units of 10^12.
quantizePosition(pos, tolerance) ==
    IF tolerance <= 0 THEN <<ToInt64(pos[1]), ToInt64(pos[2]), ToInt64(pos[3])>>
    ELSE <<RoundDiv(pos[1], tolerance), RoundDiv(pos[2], tolerance),
           RoundDiv(pos[3], tolerance)>>

\* the body of the per-corner block of both decoders: the vertex list, the
\* map and the index given to the corner
WeldNoMapUpdate(V, vm, pos, normal, o) ==
    IF o.NoDedupe
    THEN [V |-> Append(V, MeshVertex(pos, normal)), vm |-> vm, idx |-> Len(V)]
    ELSE LET key == quantizePosition(pos, o.MergeTolerance)
         IN  IF key \in DOMAIN vm
             THEN [V |-> [V EXCEPT ![vm[key] + 1].Normal = NAdd(@, normal)],
                   vm |-> vm, idx |-> vm[key]]
             ELSE [V |-> Append(V, MeshVertex(pos, normal)), vm |-> vm, idx |-> Len(V)]

WeldIgnoringNoDedupe(V, vm, pos, normal, o) ==
    LET key == quantizePosition(pos, o.MergeTolerance)
    IN  IF key \in DOMAIN vm
        THEN [V |-> [V EXCEPT ![vm[key] + 1].Normal = NAdd(@, normal)],
              vm |-> vm, idx |-> vm[key]]
        ELSE [V |-> Append(V, MeshVertex(pos, normal)),
              vm |-> [k \in DOMAIN vm \cup {key} |->
                         IF k = key THEN Len(V) ELSE vm[k]],
              idx |-> Len(V)]

Weld(V, vm, pos, normal, o) ==
    IF o.NoDedupe
    THEN [V |-> Append(V, MeshVertex(pos, normal)), vm |-> vm, idx |-> Len(V)]
    ELSE LET key == quantizePosition(pos, o.MergeTolerance)
         IN  IF key \in DOMAIN vm
             THEN [V |-> [V EXCEPT ![vm[key] + 1].Normal = NAdd(@, normal)],
                   vm |-> vm, idx |-> vm[key]]
             ELSE [V |-> Append(V, MeshVertex(pos, normal)),
                   vm |-> [k \in DOMAIN vm \cup {key} |->
                              IF k = key THEN Len(V) ELSE vm[k]],
                   idx |-> Len(V)]

\* the loop that normalizes every vertex normal
NormalizeAll(V) == [i \in 1..Len(V) |-> [V[i] EXCEPT !.Normal = Normalize(@)]]

RECURSIVE SmoothFold(_, _, _)
SmoothFold(V, F, i) ==
    IF i > Len(F) THEN V
    ELSE LET n  == RawN(FaceCross(V, F[i]))
             a  == [V  EXCEPT ![F[i].V[1] + 1].Normal = NAdd(@, n)]
             b  == [a  EXCEPT ![F[i].V[2] + 1].Normal = NAdd(@, n)]
             c  == [b  EXCEPT ![F[i].V[3] + 1].Normal = NAdd(@, n)]
         IN  SmoothFold(c, F, i + 1)

\* Mesh.CalculateSmoothNormals: the vertex list after the call
CalculateSmoothNormals(V, F) ==
    NormalizeAll(SmoothFold([i \in 1..Len(V) |-> [V[i] EXCEPT !.Normal = ZeroN]], F, 1))

\* the tail shared by loadBinary and loadASCII: normalize unless NoDedupe,
\* then the smooth normals if asked for; the vertex list after both
FinishNormals(V, F, o) ==
    LET v1 == IF o.NoDedupe THEN V ELSE NormalizeAll(V)
    IN  IF o.SmoothNormals THEN CalculateSmoothNormals(v1, F) ELSE v1

\* ------------------------------------------------------------ load inputs
\* corner positions a file may hold: (0,0,0) (1,0,0) (0,1,0) (2,0,0)
Points == {PointAt(i) : i \in 0..3}

\* normals a file may declare: none of unit length, two of unit length, one
\* of length 2
NormalSet == {<<0, 0, 0>>, <<0, 0, 1>>, <<1, 0, 0>>, <<0, 0, 2>>}

\* the corners of a binary record: a triangle in both orders, a collinear
\* triple, a triple with a repeated corner, a triangle with two corners one
\* unit apart
Triangles ==
    {<<PointAt(t[1]), PointAt(t[2]), PointAt(t[3])>> :
        t \in {<<0, 1, 2>>, <<0, 2, 1>>, <<0, 1, 3>>, <<0, 0, 1>>, <<1, 3, 2>>}}

\* the corners a text facet may list next, after the corners p: those that
\* continue p to one of Triangles, then any point
NextCorners(p) ==
    IF Len(p) >= 3 THEN Points
    ELSE {t[Len(p) + 1] : t \in {u \in Triangles : \A k \in 1..Len(p) : u[k] = p[k]}}

\* a triangle count that wraps: 84 + 85899346*50 = 2^32 + 88
WrapCount == [hi |-> 1310, lo |-> 47186]

CountSet == {U32(k) : k \in 0..(MaxTris + 1)} \cup {WrapCount}

\* buffer lengths of at least 84 bytes: header, count and k whole records,
\* alone or followed by 4 more bytes
LenSet == {84 + 50 * k + e : k \in 0..MaxTris, e \in {0, 4}}

\* A buffer is its length, whether it starts (after leading whitespace)
\* with `solid`, and the uint32 at offset 80.  A buffer of fewer than 84
\* bytes has no such field.
Buffers ==
    {[len |-> 0, prefix |-> "other", count |-> U32(0)]}
    \cup {[len |-> 83, prefix |-> p, count |-> U32(0)] : p \in {"solid", "other"}}
    \cup {[len |-> n, prefix |-> p, count |-> c] :
             n \in LenSet, p \in {"solid", "other"}, c \in CountSet}

\* the two buffers that are decoded under every configuration: a binary one
\* with MaxTris records and a short text one
MainBuffers ==
    {[len |-> 84 + 50 * MaxTris, prefix |-> "other", count |-> U32(MaxTris)],
     [len |-> 83, prefix |-> "solid", count |-> U32(0)]}

Configs ==
    {[SmoothNormals |-> s, NoDedupe |-> n, CleanMesh |-> c, MergeTolerance |-> t] :
        s \in BOOLEAN, n \in BOOLEAN, c \in BOOLEAN, t \in {0, 2}}

\* ------------------------------------------------- history of CleanMesh
FaceSet(f) == {f.V[1], f.V[2], f.V[3]}

\* b lists the indices of a in the same cyclic order
SameWinding(a, b) ==
    \/ b = a
    \/ b = <<a[2], a[3], a[1]>>
    \/ b = <<a[3], a[1], a[2]>>

\* faces i and j: non-degenerate, same three indices, opposite winding
OpposingPair(V, F, i, j) ==
    /\ i < j
    /\ FaceSet(F[i]) = FaceSet(F[j])
    /\ Cardinality(FaceSet(F[i])) = 3
    /\ ~SameWinding(F[i].V, F[j].V)
    /\ DegenerateKeepFace(V, F[i])
    /\ DegenerateKeepFace(V, F[j])

\* every face but i and j is on a vertex set of its own
OthersApart(F, i, j) ==
    \A k, l \in (1..Len(F)) \ {i, j} :
        /\ FaceSet(F[k]) # FaceSet(F[i])
        /\ k # l => FaceSet(F[k]) # FaceSet(F[l])

\* "pair":  one opposing pair plus non-degenerate faces on other vertex sets
\* "pair+degenerate": the same, with a degenerate face among the others
\* "none":  anything else
PairCaseOf(V, F) ==
    IF \E i, j \in 1..Len(F) : OpposingPair(V, F, i, j) /\ OthersApart(F, i, j)
    THEN LET ij == CHOOSE ij \in (1..Len(F)) \X (1..Len(F)) :
                      OpposingPair(V, F, ij[1], ij[2]) /\ OthersApart(F, ij[1], ij[2])
         IN  IF \A k \in (1..Len(F)) \ {ij[1], ij[2]} : DegenerateKeepFace(V, F[k])
             THEN "pair" ELSE "pair+degenerate"
    ELSE "none"

\* ------------------------------------------------------ cleanup operations
loadVars == <<inVars, vertexMap, binVars, txtVars, err, histVars, obsVars, Materials,
              positions, edits, gridUnit, scanCap, arch, parked>>

\* m.RemoveDegenerateFaces()
RemoveDegenerateFaces ==
    /\ pc = "done"
    /\ Faces' = DegenerateKept(Vertices, Faces)
    /\ clone' = IF Len(Faces) = 0 THEN clone ELSE NewFacesArray(clone)
    /\ removed' = Len(Faces) - Len(Faces')
    /\ lastOp' = "RemoveDegenerateFaces"
    /\ cleanRuns' = 0
    /\ pairCase' = "none"
    /\ UNCHANGED <<Name, Vertices, BoundsMin, BoundsMax, pc, loadVars>>

\* m.RemoveInternalFaces()
RemoveInternalFaces ==
    /\ pc = "done"
    /\ \E order \in KeyOrders(Faces) :
          Faces' = InternalKept(Vertices, Faces, order)
    /\ clone' = IF Len(Faces') = Len(Faces) THEN clone ELSE NewFacesArray(clone)
    /\ removed' = Len(Faces) - Len(Faces')
    /\ lastOp' = "RemoveInternalFaces"
    /\ cleanRuns' = 0
    /\ pairCase' = "none"
    /\ UNCHANGED <<Name, Vertices, BoundsMin, BoundsMax, pc, loadVars>>

\* m.DeduplicateFaces()
DeduplicateFaces ==
    /\ pc = "done"
    /\ Faces' = DedupKept(Faces)
    /\ clone' = IF Len(Faces) = 0 THEN clone ELSE NewFacesArray(clone)
    /\ removed' = Len(Faces) - Len(Faces')
    /\ lastOp' = "DeduplicateFaces"
    /\ cleanRuns' = 0
    /\ pairCase' = "none"
    /\ UNCHANGED <<Name, Vertices, BoundsMin, BoundsMax, pc, loadVars>>

\* m.RemoveUnreferencedVertices(); it returns nothing
RemoveUnreferencedVertices ==
    /\ pc = "done"
    /\ LET u == Unreferenced(Vertices, Faces)
       IN  /\ Vertices' = u.Vertices
           /\ Faces' = u.Faces
           /\ clone' = IF Len(Faces) = 0 \/ Len(Vertices) = 0 THEN clone
                        ELSE NewVerticesArray(FaceWrites(clone, u.Faces))
    /\ removed' = 0
    /\ lastOp' = "RemoveUnreferencedVertices"
    /\ cleanRuns' = 0
    /\ pairCase' = "none"
    /\ UNCHANGED <<Name, BoundsMin, BoundsMax, pc, loadVars>>

\* m.CleanMesh()
CleanMesh ==
    /\ pc = "done"
    /\ \E order \in KeyOrders(DegenerateKept(Vertices, Faces)) :
          LET c == Clean(Vertices, Faces, order)
          IN  /\ Vertices' = c.Vertices
              /\ Faces' = c.Faces
              /\ removed' = c.removed
              /\ clone' = IF Len(Faces) = 0 THEN clone
                           ELSE IF Len(c.Faces) = 0 \/ Len(Vertices) = 0
                           THEN NewFacesArray(clone)
                           ELSE NewVerticesArray(NewFacesArray(clone))
    /\ lastOp' = "CleanMesh"
    /\ cleanRuns' = MinI(cleanRuns + 1, 2)
    /\ pairCase' = PairCaseOf(Vertices, Faces)
    /\ UNCHANGED <<Name, BoundsMin, BoundsMax, pc, loadVars>>

CleanupStep ==
    \/ RemoveDegenerateFaces
    \/ RemoveInternalFaces
    \/ DeduplicateFaces
    \/ RemoveUnreferencedVertices
    \/ CleanMesh

\* ----------------------------------------------------------------- loads
\* return nil, err: no mesh reaches the caller
Fail(e) ==
    /\ pc' = "error"
    /\ err' = e
    /\ Name' = ""
    /\ Vertices' = <<>>
    /\ Faces' = <<>>
    /\ BoundsMin' = Zero3
    /\ BoundsMax' = Zero3
    /\ vertexMap' = EmptyMap

\* a run-time panic (index out of range) unwinds the load: the caller gets
\* neither a mesh nor an error
Panic ==
    /\ pc' = "panic"
    /\ Name' = ""
    /\ Vertices' = <<>>
    /\ Faces' = <<>>
    /\ BoundsMin' = Zero3
    /\ BoundsMax' = Zero3
    /\ vertexMap' = EmptyMap
    /\ UNCHANGED err

\* Reverse winding: swap indices 1 and 2 (loadBinary and loadASCII alike)
EmitFaceSourceOrder(fv) == Face(fv[1], fv[2], fv[3])

\* a face from the three indices accumulated last
EmitFaceLastThree(fv) == Face(fv[Len(fv) - 2], fv[Len(fv)], fv[Len(fv) - 1])

EmitFace(fv) == Face(fv[1], fv[3], fv[2])

\* LoadBytes(data, "mesh"): the format test, then the prologue of the
\* decoder it selects: loadBinary up to `offset := 84`, loadASCII up to the
\* scanner loop
LoadBytes ==
    /\ pc = "idle"
    /\ format' = IF isBinarySTL(data) THEN "binary" ELSE "text"
    /\ IF isBinarySTL(data)
       THEN IF data.len < 84
            THEN Fail([NoErr EXCEPT !.msg = "binary STL too short",
                                    !.actual = data.len])
            ELSE IF U32Less(U32(data.len), expectedSize(triCountOf(data)))
            THEN Fail([NoErr EXCEPT !.msg = "binary STL truncated",
                                    !.expected = U32Int(expectedSize(triCountOf(data))),
                                    !.actual = data.len])
            ELSE /\ pc' = "binary"
                 /\ Name' = "mesh"
                 /\ UNCHANGED <<Vertices, Faces, BoundsMin, BoundsMax, vertexMap, err>>
       ELSE /\ pc' = "ascii"
            /\ Name' = "mesh"
            /\ UNCHANGED <<Vertices, Faces, BoundsMin, BoundsMax, vertexMap, err>>
    /\ offset' = IF isBinarySTL(data) THEN 84 ELSE 0
    /\ UNCHANGED <<opts, data, triDone, txtVars, opVars, histVars, obsVars, extVars>>

\* one iteration of `for range triCount` that reads past the end of data:
\* each of the 12 readFloat32LE calls needs 4 bytes at its offset
BinaryRecordPanic ==
    /\ pc = "binary"
    /\ U32Less(U32(triDone), triCountOf(data))
    /\ offset + 48 > data.len
    /\ Panic
    /\ UNCHANGED <<inVars, extVars, binVars, txtVars, opVars, histVars, obsVars>>

\* one iteration of `for range triCount`: normal, three corners, the
\* attribute bytes skipped, the face appended
BinaryRecord ==
    /\ pc = "binary"
    /\ U32Less(U32(triDone), triCountOf(data))
    /\ offset + 48 <= data.len
    /\ \E n \in NormalSet, t \in Triangles :
          LET w1 == Weld(Vertices, vertexMap, t[1], RawN(n), opts)
              w2 == Weld(w1.V, w1.vm, t[2], RawN(n), opts)
              w3 == Weld(w2.V, w2.vm, t[3], RawN(n), opts)
              fv == <<w1.idx, w2.idx, w3.idx>>
          IN  /\ Vertices' = w3.V
              /\ vertexMap' = w3.vm
              /\ Faces' = Append(Faces, EmitFace(fv))
              /\ srcTris' = Append(srcTris, SrcTri(TRUE, n, t, fv))
              /\ positionsRead' = positionsRead \cup {t[1], t[2], t[3]}
    /\ offset' = offset + 50
    /\ triDone' = triDone + 1
    /\ cornersRead' = cornersRead + 3
    /\ UNCHANGED <<inVars, extVars, pc, Name, BoundsMin, BoundsMax, txtVars, err, opVars,
                   loopArmed, facetSrc, lastLine>>

\* the tail of loadBinary and of loadASCII: normals, bounds, the optional
\* smooth normals and cleanup, `return mesh, nil`; the decoder's locals are
\* gone once it has returned
Finish ==
    LET v1 == FinishNormals(Vertices, Faces, opts)
        b  == CalculateBounds(v1, BoundsMin, BoundsMax)
    IN  /\ BoundsMin' = b[1]
        /\ BoundsMax' = b[2]
        /\ IF opts.CleanMesh
           THEN \E order \in KeyOrders(DegenerateKept(v1, Faces)) :
                   LET c == Clean(v1, Faces, order)
                   IN  /\ Vertices' = c.Vertices
                       /\ Faces' = c.Faces
           ELSE /\ Vertices' = v1
                /\ UNCHANGED Faces
        /\ pc' = "done"
        /\ lastOp' = "LoadBytes"
        /\ removed' = 0
        /\ cleanRuns' = IF opts.CleanMesh THEN 1 ELSE 0
        /\ pairCase' = IF opts.CleanMesh THEN PairCaseOf(v1, Faces) ELSE "none"
        /\ vertexMap' = EmptyMap
        /\ offset' = 0
        /\ triDone' = 0
        /\ lineNum' = 0
        /\ currentNormal' = ZeroN
        /\ faceVerts' = <<>>
        /\ inFacet' = FALSE
        /\ inLoop' = FALSE
        /\ loopArmed' = "nofacet"
        /\ facetSrc' = NoFacet
        /\ lastLine' = "none"
        /\ UNCHANGED <<inVars, extVars, Name, err, srcTris, cornersRead, positionsRead>>

\* loadBinary after the last iteration of the record loop
BinaryFinish ==
    /\ pc = "binary"
    /\ ~U32Less(U32(triDone), triCountOf(data))
    /\ Finish

\* scanner.Scan() hands out one more line: every line takes at least one
\* byte of data.  A buffer that starts with `solid` has a first line whose
\* first field starts with `solid`: the directive itself or an unknown word.
ScanLine(kind) ==
    /\ pc = "ascii"
    /\ lineNum < scanCap.lines
    /\ lineNum < data.len
    /\ (lineNum = 0 /\ data.prefix = "solid") => kind \in {"solid", "ignored"}
    /\ lineNum' = lineNum + 1

LineErr(msg) == [NoErr EXCEPT !.msg = msg, !.line = lineNum + 1]

\* case "solid" with a second field, which becomes the name
TextSolid ==
    /\ ScanLine("solid")
    /\ lastLine' = "solid"
    /\ UNCHANGED positionsRead
    /\ Name' = "part"
    /\ UNCHANGED <<inVars, extVars, pc, Vertices, Faces, BoundsMin, BoundsMax, vertexMap,
                   binVars, currentNormal, faceVerts, inFacet, inLoop, err, opVars,
                   histVars>>

\* case "facet" with `normal` and three numbers that parse
TextFacet ==
    /\ ScanLine("facet")
    /\ lastLine' = "facet normal"
    /\ UNCHANGED positionsRead
    /\ \E n \in NormalSet :
          /\ currentNormal' = Normalize(RawN(n))
          /\ facetSrc' = [declared |-> TRUE, n |-> n, p |-> <<>>]
    /\ inFacet' = TRUE
    /\ faceVerts' = <<>>
    /\ loopArmed' = "no"
    /\ UNCHANGED <<inVars, extVars, pc, meshVars, vertexMap, binVars, inLoop, err, opVars,
                   srcTris, cornersRead>>

\* case "facet" with fewer than 5 fields or a second field that is not
\* `normal`: no field is parsed, whether it is a number or not, and the
\* normal of the previous facet stays current
TextFacetShort ==
    /\ ScanLine("facet")
    /\ \E form \in {"facet short", "facet short bad"} : lastLine' = form
    /\ UNCHANGED positionsRead
    /\ facetSrc' = [declared |-> FALSE, n |-> Zero3, p |-> <<>>]
    /\ inFacet' = TRUE
    /\ faceVerts' = <<>>
    /\ loopArmed' = "no"
    /\ UNCHANGED <<inVars, extVars, pc, meshVars, vertexMap, binVars, currentNormal, inLoop,
                   err, opVars, srcTris, cornersRead>>

\* case "facet" with a normal component that is not a number
TextFacetBad ==
    /\ ScanLine("facet")
    /\ lastLine' = "facet bad"
    /\ UNCHANGED positionsRead
    /\ Fail(LineErr("invalid normal"))
    /\ UNCHANGED <<inVars, extVars, binVars, currentNormal, faceVerts, inFacet, inLoop,
                   opVars, histVars>>

\* case "outer" followed by `loop`
TextOuterLoop ==
    /\ ScanLine("outer")
    /\ lastLine' = "outer loop"
    /\ UNCHANGED positionsRead
    /\ inLoop' = TRUE
    /\ loopArmed' = IF loopArmed = "nofacet" THEN "nofacet" ELSE "yes"
    /\ UNCHANGED <<inVars, extVars, pc, meshVars, vertexMap, binVars, currentNormal,
                   faceVerts, inFacet, err, opVars, facetSrc, srcTris, cornersRead>>

\* case "vertex" outside a facet or outside a loop, whatever its fields
TextVertexOutside ==
    /\ ScanLine("vertex")
    /\ \E form \in {"vertex", "vertex short", "vertex bad"} : lastLine' = form
    /\ UNCHANGED positionsRead
    /\ ~inFacet \/ ~inLoop
    /\ Fail(LineErr("vertex outside facet/loop"))
    /\ UNCHANGED <<inVars, extVars, binVars, currentNormal, faceVerts, inFacet, inLoop,
                   opVars, histVars>>

\* case "vertex" with fewer than 4 fields
TextVertexShort ==
    /\ ScanLine("vertex")
    /\ lastLine' = "vertex short"
    /\ UNCHANGED positionsRead
    /\ inFacet /\ inLoop
    /\ Fail(LineErr("vertex needs x y z"))
    /\ UNCHANGED <<inVars, extVars, binVars, currentNormal, faceVerts, inFacet, inLoop,
                   opVars, histVars>>

\* case "vertex" with a coordinate that is not a number
TextVertexBad ==
    /\ ScanLine("vertex")
    /\ lastLine' = "vertex bad"
    /\ UNCHANGED positionsRead
    /\ inFacet /\ inLoop
    /\ Fail(LineErr("invalid vertex"))
    /\ UNCHANGED <<inVars, extVars, binVars, currentNormal, faceVerts, inFacet, inLoop,
                   opVars, histVars>>

\* case "vertex" with three coordinates: the corner is welded or appended
TextVertex ==
    /\ ScanLine("vertex")
    /\ lastLine' = "vertex"
    /\ inFacet /\ inLoop
    /\ cornersRead < scanCap.verts
    /\ \E pos \in NextCorners(facetSrc.p) :
          LET w == Weld(Vertices, vertexMap, pos, currentNormal, opts)
          IN  /\ Vertices' = w.V
              /\ vertexMap' = w.vm
              /\ faceVerts' = Append(faceVerts, w.idx)
              /\ facetSrc' = [facetSrc EXCEPT !.p = Append(@, pos)]
              /\ positionsRead' = positionsRead \cup {pos}
    /\ cornersRead' = cornersRead + 1
    /\ UNCHANGED <<inVars, extVars, pc, Name, Faces, BoundsMin, BoundsMax, binVars,
                   currentNormal, inFacet, inLoop, err, opVars, loopArmed, srcTris>>

\* case "endloop"
TextEndLoop ==
    /\ ScanLine("endloop")
    /\ lastLine' = "endloop"
    /\ UNCHANGED positionsRead
    /\ inLoop' = FALSE
    /\ loopArmed' = IF loopArmed = "yes" THEN "no" ELSE loopArmed
    /\ UNCHANGED <<inVars, extVars, pc, meshVars, vertexMap, binVars, currentNormal,
                   faceVerts, inFacet, err, opVars, facetSrc, srcTris, cornersRead>>

\* case "endfacet": a face from the first three indices, if there are three
TextEndFacet ==
    /\ ScanLine("endfacet")
    /\ lastLine' = "endfacet"
    /\ UNCHANGED positionsRead
    /\ IF Len(faceVerts) >= 3
       THEN /\ Faces' = Append(Faces, EmitFace(faceVerts))
            /\ srcTris' = Append(srcTris,
                             SrcTri(facetSrc.declared, facetSrc.n, facetSrc.p, faceVerts))
       ELSE UNCHANGED <<Faces, srcTris>>
    /\ inFacet' = FALSE
    /\ faceVerts' = <<>>
    /\ facetSrc' = NoFacet
    /\ loopArmed' = IF loopArmed = "yes" THEN "no" ELSE loopArmed
    /\ UNCHANGED <<inVars, extVars, pc, Name, Vertices, BoundsMin, BoundsMax, vertexMap,
                   binVars, currentNormal, inLoop, err, opVars, cornersRead>>

\* an empty line, `endsolid`, an unknown first field, `solid` without a
\* name, or `outer` without `loop`: nothing but the line count changes
TextIgnored ==
    /\ ScanLine("ignored")
    /\ lastLine' = "ignored"
    /\ UNCHANGED positionsRead
    /\ UNCHANGED <<inVars, extVars, pc, meshVars, vertexMap, binVars, currentNormal,
                   faceVerts, inFacet, inLoop, err, opVars, histVars>>

\* scanner.Scan() returns false at the end of data (no line of the model is
\* long enough for scanner.Err() to be set): the tail of loadASCII
TextFinish ==
    /\ pc = "ascii"
    /\ Finish

LoadStep ==
    \/ LoadBytes
    \/ BinaryRecord
    \/ BinaryRecordPanic
    \/ BinaryFinish
    \/ TextSolid
    \/ TextFacet
    \/ TextFacetShort
    \/ TextFacetBad
    \/ TextOuterLoop
    \/ TextVertexOutside
    \/ TextVertexShort
    \/ TextVertexBad
    \/ TextVertex
    \/ TextEndLoop
    \/ TextEndFacet
    \/ TextIgnored
    \/ TextFinish

\* a loader with its options set and a buffer to decode
InitLoad ==
    /\ pc = "idle"
    /\ \/ opts \in Configs /\ data \in MainBuffers
       \/ opts = NoOpts /\ data \in Buffers
    /\ format = "none"
    /\ Name = ""
    /\ Vertices = <<>>
    /\ Faces = <<>>
    /\ BoundsMin = Zero3
    /\ BoundsMax = Zero3
    /\ vertexMap = EmptyMap
    /\ offset = 0
    /\ triDone = 0
    /\ lineNum = 0
    /\ currentNormal = ZeroN
    /\ faceVerts = <<>>
    /\ inFacet = FALSE
    /\ inLoop = FALSE
    /\ err = NoErr
    /\ lastOp = "none"
    /\ removed = 0
    /\ cleanRuns = 0
    /\ pairCase = "none"
    /\ loopArmed = "nofacet"
    /\ facetSrc = NoFacet
    /\ srcTris = <<>>
    /\ cornersRead = 0
    /\ positionsRead = {}
    /\ lastLine = "none"
    /\ Materials = <<>>
    /\ clone = NoClone
    /\ positions = <<>>
    /\ edits = 0
    /\ gridUnit = "one"
    /\ scanCap = [lines |-> MaxLines, verts |-> MaxTextVerts]
    /\ arch = "amd64"
    /\ parked = NoFrame

\* ------------------------------------------------- a mesh used in place
\* NewMesh("test"): no load is running and none has run
InitNewMesh ==
    /\ pc = "done"
    /\ Name = "test"
    /\ Vertices = <<>>
    /\ Faces = <<>>
    /\ BoundsMin = Zero3
    /\ BoundsMax = Zero3
    /\ opts = NoOpts
    /\ data = NoData
    /\ format = "none"
    /\ vertexMap = EmptyMap
    /\ offset = 0
    /\ triDone = 0
    /\ lineNum = 0
    /\ currentNormal = ZeroN
    /\ faceVerts = <<>>
    /\ inFacet = FALSE
    /\ inLoop = FALSE
    /\ err = NoErr
    /\ lastOp = "NewMesh"
    /\ removed = 0
    /\ cleanRuns = 0
    /\ pairCase = "none"
    /\ loopArmed = "nofacet"
    /\ facetSrc = NoFacet
    /\ srcTris = <<>>
    /\ cornersRead = 0
    /\ positionsRead = {}
    /\ lastLine = "none"
    /\ Materials = <<>>
    /\ clone = NoClone
    /\ positions = <<>>
    /\ edits = 0
    /\ gridUnit = "one"
    /\ scanCap = [lines |-> MaxLines, verts |-> MaxTextVerts]
    /\ arch = "amd64"
    /\ parked = NoFrame

\* positions given to vertices: those of TestSTLBounds and of TestMeshClone
MeshPoints == {<<-1, -2, -3>>, <<4, 5, 6>>, <<0, 0, 0>>, <<1, 2, 3>>}

\* translations handed to Transform
Translations == {<<1, 1, 1>>}

\* Mat4.MulVec3 for the matrix of the translation by d
MulVec3(d, p) == V3Add(p, d)

\* Mat4.MulVec3Dir for the matrix of the translation by d: a direction is
\* not moved
MulVec3Dir(d, n) == n

\* the loop of Mesh.Transform: the vertex list after it
TransformAll(V, d) ==
    [i \in 1..Len(V) |->
        [V[i] EXCEPT !.Position = MulVec3(d, @),
                     !.Normal = Normalize(MulVec3Dir(d, @))]]

\* the frame of an edit or call that is not a cleanup stage
MeshOp(name) ==
    /\ pc = "done"
    /\ edits < MaxEdits
    /\ edits' = edits + 1
    /\ lastOp' = name
    /\ removed' = 0
    /\ cleanRuns' = 0
    /\ pairCase' = "none"
    /\ UNCHANGED <<inVars, pc, Name, vertexMap, binVars, txtVars, err, histVars,
                   obsVars, Materials, positions, gridUnit, scanCap, arch, parked>>

\* mesh.Vertices = append(mesh.Vertices, MeshVertex{Position: p}); append
\* writes into the backing array when it has room and makes a new one when
\* it has not
AppendVertex ==
    /\ MeshOp("AppendVertex")
    /\ Len(Vertices) < MaxMeshVerts
    /\ \E p \in MeshPoints, grown \in BOOLEAN :
          /\ Vertices' = Append(Vertices, MeshVertex(p, ZeroN))
          /\ clone' = IF grown THEN NewVerticesArray(clone)
                      ELSE VertexWrites(clone, Vertices')
    /\ UNCHANGED <<Faces, BoundsMin, BoundsMax>>

\* mesh.Faces = append(mesh.Faces, Face{V: [3]int{a, b, c}}): the Material
\* field is left at its zero value
AppendFace ==
    /\ MeshOp("AppendFace")
    /\ Len(Faces) < MaxMeshFaces
    /\ \E t \in {<<0, 0, 0>>, <<0, 1, 2>>, <<0, 2, 1>>}, grown \in BOOLEAN :
          /\ \A k \in 1..3 : t[k] < Len(Vertices)
          /\ Faces' = Append(Faces, [V |-> t, Material |-> 0])
          /\ clone' = IF grown THEN NewFacesArray(clone)
                      ELSE FaceWrites(clone, Faces')
    /\ UNCHANGED <<Vertices, BoundsMin, BoundsMax>>

\* mesh.Vertices[i].Position = p
SetPosition ==
    /\ MeshOp("SetPosition")
    /\ \E i \in 1..Len(Vertices), p \in MeshPoints :
          /\ Vertices' = [Vertices EXCEPT ![i].Position = p]
          /\ clone' = VertexWrites(clone, Vertices')
    /\ UNCHANGED <<Faces, BoundsMin, BoundsMax>>

\* mesh.CalculateBounds()
CalculateBoundsCall ==
    /\ MeshOp("CalculateBounds")
    /\ BoundsMin' = CalculateBounds(Vertices, BoundsMin, BoundsMax)[1]
    /\ BoundsMax' = CalculateBounds(Vertices, BoundsMin, BoundsMax)[2]
    /\ UNCHANGED <<Vertices, Faces, clone>>

\* mesh.Transform(mat)
Transform ==
    /\ MeshOp("Transform")
    /\ \E d \in Translations :
          /\ Vertices' = TransformAll(Vertices, d)
          /\ clone' = VertexWrites(clone, Vertices')
          /\ BoundsMin' = CalculateBounds(Vertices', BoundsMin, BoundsMax)[1]
          /\ BoundsMax' = CalculateBounds(Vertices', BoundsMin, BoundsMax)[2]
    /\ UNCHANGED Faces

\* a copy that takes over the slices of m instead of copying their elements
CloneShallow(name, V, F, M, lo, hi) ==
    [exists |-> TRUE, Name |-> name, Vertices |-> V, Faces |-> F, Materials |-> M,
     BoundsMin |-> lo, BoundsMax |-> hi, aliasV |-> TRUE, aliasF |-> TRUE]

\* Mesh.Clone: make and copy give the clone backing arrays of its own
Clone(name, V, F, M, lo, hi) ==
    [exists |-> TRUE, Name |-> name, Vertices |-> V, Faces |-> F, Materials |-> M,
     BoundsMin |-> lo, BoundsMax |-> hi, aliasV |-> FALSE, aliasF |-> FALSE]

\* clone := mesh.Clone(); one clone is followed
CloneCall ==
    /\ MeshOp("Clone")
    /\ ~clone.exists
    /\ clone' = Clone(Name, Vertices, Faces, Materials, BoundsMin, BoundsMax)
    /\ UNCHANGED <<Vertices, Faces, BoundsMin, BoundsMax>>

\* m as the other mesh of an edit of the clone: its lists after elements of
\* the clone's slices have been written in place
WrittenThrough(mine, theirs, alias) == IF alias THEN Overlay(mine, theirs) ELSE mine

\* clone.Vertices[i].Position = p
CloneSetPosition ==
    /\ MeshOp("clone.SetPosition")
    /\ clone.exists
    /\ \E i \in 1..Len(clone.Vertices), p \in MeshPoints :
          /\ clone' = [clone EXCEPT !.Vertices[i].Position = p]
          /\ Vertices' = WrittenThrough(Vertices, clone'.Vertices, clone.aliasV)
    /\ UNCHANGED <<Faces, BoundsMin, BoundsMax>>

\* clone.Vertices = append(clone.Vertices, MeshVertex{Position: p})
CloneAppendVertex ==
    /\ MeshOp("clone.AppendVertex")
    /\ clone.exists
    /\ Len(clone.Vertices) < MaxMeshVerts
    /\ \E p \in MeshPoints, grown \in BOOLEAN :
          LET v == Append(clone.Vertices, MeshVertex(p, ZeroN))
          IN  /\ clone' = [clone EXCEPT !.Vertices = v,
                                        !.aliasV = IF grown THEN FALSE ELSE @]
              /\ Vertices' = WrittenThrough(Vertices, v, clone.aliasV /\ ~grown)
    /\ UNCHANGED <<Faces, BoundsMin, BoundsMax>>

\* clone.Transform(mat)
CloneTransform ==
    /\ MeshOp("clone.Transform")
    /\ clone.exists
    /\ \E d \in Translations :
          LET v == TransformAll(clone.Vertices, d)
              b == CalculateBounds(v, clone.BoundsMin, clone.BoundsMax)
          IN  /\ clone' = [clone EXCEPT !.Vertices = v, !.BoundsMin = b[1],
                                        !.BoundsMax = b[2]]
              /\ Vertices' = WrittenThrough(Vertices, v, clone.aliasV)
    /\ UNCHANGED <<Faces, BoundsMin, BoundsMax>>

\* clone.CleanMesh(): the face and vertex lists it ends with are newly made
\* slices unless the stage that makes them returns early
CloneCleanMesh ==
    /\ MeshOp("clone.CleanMesh")
    /\ clone.exists
    /\ \E order \in KeyOrders(DegenerateKept(clone.Vertices, clone.Faces)) :
          LET c == Clean(clone.Vertices, clone.Faces, order)
          IN  clone' = [clone EXCEPT
                          !.Vertices = c.Vertices,
                          !.Faces = c.Faces,
                          !.aliasF = IF Len(clone.Faces) = 0 THEN @ ELSE FALSE,
                          !.aliasV = IF Len(c.Faces) = 0 \/ Len(clone.Vertices) = 0
                                     THEN @ ELSE FALSE]
    /\ UNCHANGED <<Vertices, Faces, BoundsMin, BoundsMax>>

MeshStep ==
    \/ AppendVertex
    \/ AppendFace
    \/ SetPosition
    \/ CalculateBoundsCall
    \/ Transform
    \/ CloneCall
    \/ CloneSetPosition
    \/ CloneAppendVertex
    \/ CloneTransform
    \/ CloneCleanMesh

NextMesh == MeshStep \/ CleanupStep

SpecMesh == InitNewMesh /\ [][NextMesh]_vars

\* ------------------------------------------------------- OBJLoader.Load
\* Load has made the mesh with NewMesh(name) and is about to scan the lines
InitOBJ ==
    /\ pc = "obj"
    /\ Name = "mesh"
    /\ Vertices = <<>>
    /\ Faces = <<>>
    /\ BoundsMin = Zero3
    /\ BoundsMax = Zero3
    /\ opts = NoOpts
    /\ data = NoData
    /\ format = "none"
    /\ vertexMap = EmptyMap
    /\ offset = 0
    /\ triDone = 0
    /\ lineNum = 0
    /\ currentNormal = ZeroN
    /\ faceVerts = <<>>
    /\ inFacet = FALSE
    /\ inLoop = FALSE
    /\ err = NoErr
    /\ lastOp = "none"
    /\ removed = 0
    /\ cleanRuns = 0
    /\ pairCase = "none"
    /\ loopArmed = "nofacet"
    /\ facetSrc = NoFacet
    /\ srcTris = <<>>
    /\ cornersRead = 0
    /\ positionsRead = {}
    /\ lastLine = "none"
    /\ Materials = <<>>
    /\ clone = NoClone
    /\ positions = <<>>
    /\ edits = 0
    /\ gridUnit = "one"
    /\ scanCap = [lines |-> MaxLines, verts |-> MaxTextVerts]
    /\ arch = "amd64"
    /\ parked = NoFrame

\* resolveIndex(idx, count)
resolveIndex(idx, count) ==
    IF idx = 0 THEN -1 ELSE IF idx < 0 THEN count + idx ELSE idx - 1

\* the position indices a face line may name, 1-based, negative from the end
FaceTokens ==
    {<<a, b, c>> : a, b, c \in {-1, 1, 2, 3}} \cup {<<1, 2, 3, 4>>, <<1, 2, 3, 3>>}

\* the `for i := 1; i < len(fields); i++` loop of case "f" for tokens that
\* name a position only: the vertex list, the map and faceVerts after token
\* i and the ones behind it, ok FALSE when a position index is out of range
RECURSIVE FaceVertsFold(_, _, _, _, _)
FaceVertsFold(tokens, i, V, vm, fv) ==
    IF i > Len(tokens) THEN [ok |-> TRUE, V |-> V, vm |-> vm, fv |-> fv]
    ELSE LET posIdx == resolveIndex(tokens[i], Len(positions))
             key    == <<posIdx, -1, -1>>
         IN  IF posIdx < 0 \/ posIdx >= Len(positions)
             THEN [ok |-> FALSE, V |-> V, vm |-> vm, fv |-> fv]
             ELSE IF key \in DOMAIN vm
             THEN FaceVertsFold(tokens, i + 1, V, vm, Append(fv, vm[key]))
             ELSE FaceVertsFold(tokens, i + 1,
                                Append(V, MeshVertex(positions[posIdx + 1], ZeroN)),
                                [k \in DOMAIN vm \cup {key} |->
                                    IF k = key THEN Len(V) ELSE vm[k]],
                                Append(fv, Len(V)))

\* the fan triangulation: Face{V: [3]int{fv[0], fv[i+1], fv[i]}} for
\* i = 1 .. len(fv)-2; the Material field is not set and keeps its zero value
RECURSIVE FanFold(_, _, _)
FanFold(fv, i, F) ==
    IF i >= Len(fv) - 1 THEN F
    ELSE FanFold(fv, i + 1,
                 Append(F, [V |-> <<fv[1], fv[i + 2], fv[i + 1]>>, Material |-> 0]))

\* Mesh.CalculateNormals: each face writes its unit normal to its three
\* vertices; the vertex list after face i and the ones behind it
RECURSIVE FlatFold(_, _, _)
FlatFold(V, F, i) ==
    IF i > Len(F) THEN V
    ELSE LET n == Normalize(RawN(FaceCross(V, F[i])))
             a == [V EXCEPT ![F[i].V[1] + 1].Normal = n]
             b == [a EXCEPT ![F[i].V[2] + 1].Normal = n]
             c == [b EXCEPT ![F[i].V[3] + 1].Normal = n]
         IN  FlatFold(c, F, i + 1)

CalculateNormals(V, F) == FlatFold(V, F, 1)

\* scanner.Scan() hands out one more line
OBJScanLine ==
    /\ pc = "obj"
    /\ lineNum < MaxObjLines
    /\ lineNum' = lineNum + 1

\* what no line of an OBJ load changes
objFrame == <<inVars, binVars, currentNormal, faceVerts, inFacet, inLoop, opVars,
              histVars, obsVars, Materials, clone, edits, gridUnit, scanCap, arch, parked>>

\* case "v" with three coordinates that parse
OBJVertexLine ==
    /\ OBJScanLine
    /\ Len(positions) < MaxObjPositions
    /\ \E p \in Points : positions' = Append(positions, p)
    /\ UNCHANGED <<pc, meshVars, vertexMap, err, objFrame>>

\* case "v" with fewer than four fields or a coordinate that is not a
\* number, case "f" with fewer than four fields or a token that is not a
\* whole number
OBJLineError ==
    /\ OBJScanLine
    /\ \E msg \in {"invalid vertex", "face needs at least 3 vertices",
                   "invalid vertex index"} : Fail(LineErr(msg))
    /\ UNCHANGED <<positions, objFrame>>

\* case "f" with three or four tokens
OBJFaceLine ==
    /\ OBJScanLine
    /\ \E tokens \in FaceTokens :
          LET r == FaceVertsFold(tokens, 1, Vertices, vertexMap, <<>>)
          IN  IF r.ok
              THEN /\ Vertices' = r.V
                   /\ vertexMap' = r.vm
                   /\ Faces' = FanFold(r.fv, 1, Faces)
                   /\ UNCHANGED <<pc, Name, BoundsMin, BoundsMax, err>>
              ELSE Fail(LineErr("position index out of range"))
    /\ UNCHANGED <<positions, objFrame>>

\* an empty line, a comment, mtllib, usemtl, s or an unknown directive
OBJIgnored ==
    /\ OBJScanLine
    /\ UNCHANGED <<pc, meshVars, vertexMap, err, positions, objFrame>>

\* the scanner is exhausted: bounds, then the normals the options ask for
\* (no `vn` line has been read), `return mesh, nil`
OBJFinish ==
    /\ pc = "obj"
    /\ \E calc, smooth \in BOOLEAN :
          Vertices' = IF ~calc THEN Vertices
                      ELSE IF smooth THEN CalculateSmoothNormals(Vertices, Faces)
                      ELSE CalculateNormals(Vertices, Faces)
    /\ BoundsMin' = CalculateBounds(Vertices, BoundsMin, BoundsMax)[1]
    /\ BoundsMax' = CalculateBounds(Vertices, BoundsMin, BoundsMax)[2]
    /\ pc' = "done"
    /\ lastOp' = "Load"
    /\ vertexMap' = EmptyMap
    /\ positions' = <<>>
    /\ lineNum' = 0
    /\ UNCHANGED <<inVars, Name, Faces, binVars, currentNormal, faceVerts, inFacet,
                   inLoop, err, removed, cleanRuns, pairCase, histVars, obsVars,
                   Materials, clone, edits, gridUnit, scanCap, arch, parked>>

OBJStep ==
    \/ OBJVertexLine
    \/ OBJLineError
    \/ OBJFaceLine
    \/ OBJIgnored
    \/ OBJFinish

NextOBJ == OBJStep \/ CleanupStep

SpecOBJ == InitOBJ /\ [][NextOBJ]_vars

Next == LoadStep \/ CleanupStep

Spec == InitLoad /\ [][Next]_vars

\* a mesh built in place, as NewMesh followed by assignments to the exported
\* Vertices and Faces fields: MaxVerts vertices, at most MaxFaces faces
InitLiteral ==
    /\ pc = "done"
    /\ Name = "test"
    /\ Vertices = [i \in 1..MaxVerts |-> MeshVertex(PointAt(i - 1), ZeroN)]
    /\ \E n \in 0..MaxFaces :
          Faces \in [1..n -> {Face(t[1], t[2], t[3]) : t \in FaceChoices(MaxVerts)}]
    /\ BoundsMin = Zero3
    /\ BoundsMax = Zero3
    /\ opts = NoOpts
    /\ data = NoData
    /\ format = "none"
    /\ vertexMap = EmptyMap
    /\ offset = 0
    /\ triDone = 0
    /\ lineNum = 0
    /\ currentNormal = ZeroN
    /\ faceVerts = <<>>
    /\ inFacet = FALSE
    /\ inLoop = FALSE
    /\ err = NoErr
    /\ lastOp = "NewMesh"
    /\ removed = 0
    /\ cleanRuns = 0
    /\ pairCase = "none"
    /\ loopArmed = "nofacet"
    /\ facetSrc = NoFacet
    /\ srcTris = <<>>
    /\ cornersRead = 0
    /\ positionsRead = {}
    /\ lastLine = "none"
    /\ Materials = <<>>
    /\ clone = NoClone
    /\ positions = <<>>
    /\ edits = 0
    /\ gridUnit = "one"
    /\ scanCap = [lines |-> MaxLines, verts |-> MaxTextVerts]
    /\ arch = "amd64"
    /\ parked = NoFrame

SpecClean == InitLiteral /\ [][CleanupStep]_vars

\* loads and literal meshes, each followed by any cleanup stages
SpecAll == (InitLoad \/ InitLiteral) /\ [][Next]_vars

\* a literal mesh as in InitLiteral whose coordinates are whole multiples of
\* sqrt(1.5e-10) instead of 1: its smallest triangles have an area below
\* 1e-10 and a cross product longer than 1e-10
InitFine ==
    /\ pc = "done"
    /\ Name = "test"
    /\ Vertices = [i \in 1..MaxVerts |-> MeshVertex(PointAt(i - 1), ZeroN)]
    /\ \E n \in 0..MaxFaces :
          Faces \in [1..n -> {Face(t[1], t[2], t[3]) : t \in FaceChoices(MaxVerts)}]
    /\ BoundsMin = Zero3
    /\ BoundsMax = Zero3
    /\ opts = NoOpts
    /\ data = NoData
    /\ format = "none"
    /\ vertexMap = EmptyMap
    /\ offset = 0
    /\ triDone = 0
    /\ lineNum = 0
    /\ currentNormal = ZeroN
    /\ faceVerts = <<>>
    /\ inFacet = FALSE
    /\ inLoop = FALSE
    /\ err = NoErr
    /\ lastOp = "NewMesh"
    /\ removed = 0
    /\ cleanRuns = 0
    /\ pairCase = "none"
    /\ loopArmed = "nofacet"
    /\ facetSrc = NoFacet
    /\ srcTris = <<>>
    /\ cornersRead = 0
    /\ positionsRead = {}
    /\ lastLine = "none"
    /\ Materials = <<>>
    /\ clone = NoClone
    /\ positions = <<>>
    /\ edits = 0
    /\ gridUnit = "fine"
    /\ scanCap = [lines |-> MaxLines, verts |-> MaxTextVerts]
    /\ arch = "amd64"
    /\ parked = NoFrame

SpecFine == InitFine /\ [][CleanupStep]_vars

\* a welding loader, cleaning or not, handed a text buffer of fewer than 84
\* bytes that does not start with `solid`; its lines are followed far enough
\* for a whole facet and the start of another
InitText ==
    /\ pc = "idle"
    /\ opts \in {c \in Configs : ~c.SmoothNormals /\ ~c.NoDedupe /\ c.MergeTolerance = 0}
    /\ data = [len |-> 83, prefix |-> "other", count |-> U32(0)]
    /\ format = "none"
    /\ Name = ""
    /\ Vertices = <<>>
    /\ Faces = <<>>
    /\ BoundsMin = Zero3
    /\ BoundsMax = Zero3
    /\ vertexMap = EmptyMap
    /\ offset = 0
    /\ triDone = 0
    /\ lineNum = 0
    /\ currentNormal = ZeroN
    /\ faceVerts = <<>>
    /\ inFacet = FALSE
    /\ inLoop = FALSE
    /\ err = NoErr
    /\ lastOp = "none"
    /\ removed = 0
    /\ cleanRuns = 0
    /\ pairCase = "none"
    /\ loopArmed = "nofacet"
    /\ facetSrc = NoFacet
    /\ srcTris = <<>>
    /\ cornersRead = 0
    /\ positionsRead = {}
    /\ lastLine = "none"
    /\ Materials = <<>>
    /\ clone = NoClone
    /\ positions = <<>>
    /\ edits = 0
    /\ gridUnit = "one"
    /\ scanCap = [lines |-> MaxLines + 2, verts |-> MaxTextVerts + 1]
    /\ arch = "amd64"
    /\ parked = NoFrame

\* LoadBytes on a text buffer: the detection, then loadASCII line by line
NextText ==
    \/ LoadBytes
    \/ TextSolid
    \/ TextFacet
    \/ TextFacetShort
    \/ TextFacetBad
    \/ TextOuterLoop
    \/ TextVertexOutside
    \/ TextVertexShort
    \/ TextVertexBad
    \/ TextVertex
    \/ TextEndLoop
    \/ TextEndFacet
    \/ TextIgnored
    \/ TextFinish

SpecText == InitText /\ [][NextText]_vars

\* corner positions near the origin and far from it: 10^7 * 10^12 is
\* beyond the range of int64
WeldPoints ==
    {<<0, 0, 0>>, <<1, 0, 0>>, <<2, 0, 0>>,
     <<10000000, 0, 0>>, <<20000000, 0, 0>>, <<-10000000, 0, 0>>}

\* a welding loader inside a decoder, about to read corners, on either
\* build target
InitWeld ==
    /\ pc = "corner"
    /\ opts \in {c \in Configs : ~c.SmoothNormals /\ ~c.NoDedupe /\ ~c.CleanMesh}
    /\ data = NoData
    /\ format = "none"
    /\ Name = "mesh"
    /\ Vertices = <<>>
    /\ Faces = <<>>
    /\ BoundsMin = Zero3
    /\ BoundsMax = Zero3
    /\ vertexMap = EmptyMap
    /\ offset = 0
    /\ triDone = 0
    /\ lineNum = 0
    /\ currentNormal = ZeroN
    /\ faceVerts = <<>>
    /\ inFacet = FALSE
    /\ inLoop = FALSE
    /\ err = NoErr
    /\ lastOp = "none"
    /\ removed = 0
    /\ cleanRuns = 0
    /\ pairCase = "none"
    /\ loopArmed = "nofacet"
    /\ facetSrc = NoFacet
    /\ srcTris = <<>>
    /\ cornersRead = 0
    /\ positionsRead = {}
    /\ lastLine = "none"
    /\ Materials = <<>>
    /\ clone = NoClone
    /\ positions = <<>>
    /\ edits = 0
    /\ gridUnit = "one"
    /\ scanCap = [lines |-> MaxLines, verts |-> MaxTextVerts]
    /\ arch \in {"amd64", "arm64"}
    /\ parked = NoFrame

\* the per-corner block of the decoders on one more corner: the position is
\* welded and its index noted (faceVerts), next to the position read
\* (facetSrc.p)
WeldCorner ==
    /\ pc = "corner"
    /\ cornersRead < MaxCorners
    /\ \E pos \in WeldPoints :
          LET w == Weld(Vertices, vertexMap, pos, currentNormal, opts)
          IN  /\ Vertices' = w.V
              /\ vertexMap' = w.vm
              /\ faceVerts' = Append(faceVerts, w.idx)
              /\ facetSrc' = [facetSrc EXCEPT !.p = Append(@, pos)]
              /\ positionsRead' = positionsRead \cup {pos}
    /\ cornersRead' = cornersRead + 1
    /\ UNCHANGED <<inVars, extVars, pc, Name, Faces, BoundsMin, BoundsMax, binVars,
                   lineNum, currentNormal, inFacet, inLoop, err, opVars, loopArmed,
                   srcTris, lastLine>>

SpecWeld == InitWeld /\ [][WeldCorner]_vars

\* the uint32 at offset 80 of a buffer of text whose bytes 80..83 are four
\* spaces: 0x20202020
TextCount == [hi |-> 8224, lo |-> 8224]

\* a loader handed a buffer of text whose first token is `solid` in lower
\* case, in upper case or capitalized, of 83 bytes or of 84 and more
InitSniff ==
    /\ pc = "idle"
    /\ opts \in Configs
    /\ data \in {[len |-> n, prefix |-> p, count |-> TextCount] :
                    n \in {83} \cup LenSet, p \in {"solid", "SOLID", "Solid"}}
    /\ format = "none"
    /\ Name = ""
    /\ Vertices = <<>>
    /\ Faces = <<>>
    /\ BoundsMin = Zero3
    /\ BoundsMax = Zero3
    /\ vertexMap = EmptyMap
    /\ offset = 0
    /\ triDone = 0
    /\ lineNum = 0
    /\ currentNormal = ZeroN
    /\ faceVerts = <<>>
    /\ inFacet = FALSE
    /\ inLoop = FALSE
    /\ err = NoErr
    /\ lastOp = "none"
    /\ removed = 0
    /\ cleanRuns = 0
    /\ pairCase = "none"
    /\ loopArmed = "nofacet"
    /\ facetSrc = NoFacet
    /\ srcTris = <<>>
    /\ cornersRead = 0
    /\ positionsRead = {}
    /\ lastLine = "none"
    /\ Materials = <<>>
    /\ clone = NoClone
    /\ positions = <<>>
    /\ edits = 0
    /\ gridUnit = "one"
    /\ scanCap = [lines |-> MaxLines, verts |-> MaxTextVerts]
    /\ arch = "amd64"
    /\ parked = NoFrame

\* the format test and the prologue of the decoder it selects
SpecSniff == InitSniff /\ [][LoadBytes]_vars

\* the locals of the running load: its buffer, its position, the mesh and
\* the welding map it is building, its counters and flags
FrameOf ==
    [pc |-> pc, data |-> data, format |-> format, Name |-> Name,
     Vertices |-> Vertices, Faces |-> Faces, BoundsMin |-> BoundsMin,
     BoundsMax |-> BoundsMax, vertexMap |-> vertexMap, offset |-> offset,
     triDone |-> triDone, lineNum |-> lineNum,
     currentNormal |-> currentNormal, faceVerts |-> faceVerts,
     inFacet |-> inFacet, inLoop |-> inLoop, err |-> err, lastOp |-> lastOp,
     removed |-> removed, cleanRuns |-> cleanRuns, pairCase |-> pairCase,
     loopArmed |-> loopArmed, facetSrc |-> facetSrc, srcTris |-> srcTris,
     cornersRead |-> cornersRead, positionsRead |-> positionsRead,
     lastLine |-> lastLine]

\* the frame of a load before LoadBytes is entered, handed a binary buffer
\* of one record
IdleFrame ==
    [pc |-> "idle",
     data |-> [len |-> 134, prefix |-> "other", count |-> U32(1)],
     format |-> "none", Name |-> "", Vertices |-> <<>>, Faces |-> <<>>,
     BoundsMin |-> Zero3, BoundsMax |-> Zero3, vertexMap |-> EmptyMap,
     offset |-> 0, triDone |-> 0, lineNum |-> 0, currentNormal |-> ZeroN,
     faceVerts |-> <<>>, inFacet |-> FALSE, inLoop |-> FALSE, err |-> NoErr,
     lastOp |-> "none", removed |-> 0, cleanRuns |-> 0, pairCase |-> "none",
     loopArmed |-> "nofacet", facetSrc |-> NoFacet, srcTris |-> <<>>,
     cornersRead |-> 0, positionsRead |-> {}, lastLine |-> "none"]

\* a load that finds the welding map as the other load left it
ResumedSharedMap(fr) == [fr EXCEPT !.vertexMap = vertexMap]

\* what a load finds when it is scheduled again: its own locals
Resumed(fr) == fr

\* the scheduler takes the running load off and puts the other one on; the
\* loader (opts) is the same value for both
Switch ==
    /\ parked # NoFrame
    /\ parked' = FrameOf
    /\ pc' = Resumed(parked).pc
    /\ data' = Resumed(parked).data
    /\ format' = Resumed(parked).format
    /\ Name' = Resumed(parked).Name
    /\ Vertices' = Resumed(parked).Vertices
    /\ Faces' = Resumed(parked).Faces
    /\ BoundsMin' = Resumed(parked).BoundsMin
    /\ BoundsMax' = Resumed(parked).BoundsMax
    /\ vertexMap' = Resumed(parked).vertexMap
    /\ offset' = Resumed(parked).offset
    /\ triDone' = Resumed(parked).triDone
    /\ lineNum' = Resumed(parked).lineNum
    /\ currentNormal' = Resumed(parked).currentNormal
    /\ faceVerts' = Resumed(parked).faceVerts
    /\ inFacet' = Resumed(parked).inFacet
    /\ inLoop' = Resumed(parked).inLoop
    /\ err' = Resumed(parked).err
    /\ lastOp' = Resumed(parked).lastOp
    /\ removed' = Resumed(parked).removed
    /\ cleanRuns' = Resumed(parked).cleanRuns
    /\ pairCase' = Resumed(parked).pairCase
    /\ loopArmed' = Resumed(parked).loopArmed
    /\ facetSrc' = Resumed(parked).facetSrc
    /\ srcTris' = Resumed(parked).srcTris
    /\ cornersRead' = Resumed(parked).cornersRead
    /\ positionsRead' = Resumed(parked).positionsRead
    /\ lastLine' = Resumed(parked).lastLine
    /\ UNCHANGED <<opts, Materials, clone, positions, edits, gridUnit, scanCap, arch>>

\* two LoadBytes calls on one welding loader, each on a binary buffer of its
\* own, neither entered yet
InitTwo ==
    /\ opts \in {c \in Configs : ~c.SmoothNormals /\ ~c.CleanMesh /\ ~c.NoDedupe}
    /\ data = [len |-> 84 + 50 * MaxTris, prefix |-> "other", count |-> U32(MaxTris)]
    /\ pc = "idle"
    /\ format = "none"
    /\ Name = ""
    /\ Vertices = <<>>
    /\ Faces = <<>>
    /\ BoundsMin = Zero3
    /\ BoundsMax = Zero3
    /\ vertexMap = EmptyMap
    /\ offset = 0
    /\ triDone = 0
    /\ lineNum = 0
    /\ currentNormal = ZeroN
    /\ faceVerts = <<>>
    /\ inFacet = FALSE
    /\ inLoop = FALSE
    /\ err = NoErr
    /\ lastOp = "none"
    /\ removed = 0
    /\ cleanRuns = 0
    /\ pairCase = "none"
    /\ loopArmed = "nofacet"
    /\ facetSrc = NoFacet
    /\ srcTris = <<>>
    /\ cornersRead = 0
    /\ positionsRead = {}
    /\ lastLine = "none"
    /\ Materials = <<>>
    /\ clone = NoClone
    /\ positions = <<>>
    /\ edits = 0
    /\ gridUnit = "one"
    /\ scanCap = [lines |-> MaxLines, verts |-> MaxTextVerts]
    /\ arch = "amd64"
    /\ parked = IdleFrame

NextTwo ==
    \/ LoadBytes
    \/ BinaryRecord
    \/ BinaryFinish
    \/ Switch

SpecTwo == InitTwo /\ [][NextTwo]_vars

\* ------------------------------------------------------------------ claims
InRange(V, F) ==
    \A i \in 1..Len(F) : \A k \in 1..3 : 0 <= F[i].V[k] /\ F[i].V[k] < Len(V)

\* C1 (index integrity, I1): in every mesh returned by a load and after every
\* cleanup stage, each face index is at least 0 and less than the number of
\* vertices.
IndexIntegrity == pc = "done" => InRange(Vertices, Faces)


\* C1: a load has returned a mesh, cleanup stages have run on it and have
\* left a face behind
IndexIntegrityWitness ==
    /\ pc = "done"
    /\ Len(srcTris) >= 1
    /\ lastOp = "RemoveUnreferencedVertices"
    /\ Len(Faces) >= 1

\* C2 (cleanup idempotence): a CleanMesh call that directly follows a
\* CleanMesh call returns 0 and changes neither the faces nor the vertices.
CleanupIdempotent ==
    [][(pc = "done" /\ lastOp = "CleanMesh" /\ lastOp' = "CleanMesh")
          => (removed' = 0 /\ Faces' = Faces /\ Vertices' = Vertices)]_vars

\* C2: CleanMesh has run twice in a row, on a mesh it had to shrink
CleanupIdempotentWitness ==
    /\ cleanRuns = 2
    /\ removed = 0
    /\ Len(Faces) >= 1
    /\ Len(Vertices) < MaxVerts

TriPos(V, f) == <<PosOf(V, f.V[1]), PosOf(V, f.V[2]), PosOf(V, f.V[3])>>

TriPosSeq(V, F) == [k \in 1..Len(F) |-> TriPos(V, F[k])]

\* the faces of F that are not on the vertex set of an opposing pair
UnrelatedFaces(V, F) ==
    SelectSeq(F, LAMBDA f :
        ~\E i, j \in 1..Len(F) : OpposingPair(V, F, i, j) /\ FaceSet(F[i]) = FaceSet(f))

\* the step is a CleanMesh call that removes 2 faces and keeps the others,
\* in order, on the same positions
RemovesExactlyThePair ==
    /\ removed' = 2
    /\ TriPosSeq(Vertices', Faces') = TriPosSeq(Vertices, UnrelatedFaces(Vertices, Faces))

\* C3 as stated: CleanMesh on one opposing pair plus any faces on other,
\* pairwise different vertex sets returns 2 and keeps every other face.
OpposingPairRemovedAnyOthers ==
    [][(pc = "done" /\ lastOp' = "CleanMesh"
          /\ PairCaseOf(Vertices, Faces) \in {"pair", "pair+degenerate"})
          => RemovesExactlyThePair]_vars

\* C3 (amended): CleanMesh on one opposing pair plus non-degenerate faces on
\* other, pairwise different vertex sets returns 2 and keeps every other face.
OpposingPairRemoved ==
    [][(pc = "done" /\ lastOp' = "CleanMesh" /\ PairCaseOf(Vertices, Faces) = "pair")
          => RemovesExactlyThePair]_vars

\* C3: CleanMesh has returned 2 for a pair with an unrelated face beside it
OpposingPairRemovedWitness ==
    /\ lastOp = "CleanMesh"
    /\ pairCase = "pair"
    /\ removed = 2
    /\ Len(Faces) >= 1

\* the buffer is shorter than 84 + count*50, count taken as an exact integer
LenBelowExact(d) ==
    d.len < 84 \/ U32Less(U32((d.len - 84) \div 50), d.count)

\* the buffer is exactly 84 + count*50 bytes long, count taken as an exact
\* integer
LenEqualsExact(d) ==
    /\ d.len >= 84
    /\ (d.len - 84) % 50 = 0
    /\ U32((d.len - 84) \div 50) = d.count

\* C4 (truncation error): once the binary decoder has been handed a buffer
\* shorter than 84 + count*50, the load has ended in the truncation error,
\* which reports the expected size and the actual length; no mesh is returned
\* and no record is read.
TruncationRejected ==
    (pc # "idle" /\ format = "binary" /\ LenBelowExact(data))
        => /\ pc = "error"
           /\ err.msg = "binary STL truncated"
           /\ err.actual = data.len
           /\ data.count.hi = 0 => err.expected = 84 + 50 * data.count.lo
           /\ Len(Vertices) = 0 /\ Len(Faces) = 0
           /\ triDone = 0

\* C5 (two outcomes): a load never ends in anything but a returned mesh or
\* a returned error; in particular it never aborts on an out-of-range read.
LoadEndsInMeshOrError == pc \in {"idle", "binary", "ascii", "done", "error"}

\* C6 (format detection): a buffer is classified Binary exactly when it has
\* at least 84 bytes and either does not start with `solid` or is exactly
\* 84 + count*50 bytes long, count taken as an exact integer; every other
\* buffer is Text.
DetectionByExactSize ==
    pc # "idle" =>
        (format = "binary" <=>
            (data.len >= 84 /\ (data.prefix = "solid" => LenEqualsExact(data))))

\* C7 (text state machine): a `vertex` line is accepted only when an `outer
\* loop` line has been read since the most recent `facet` line with no
\* `endloop` or `endfacet` after it; any other `vertex` line ends the load in
\* an error that cites the line's number.
VertexOnlyInLoop ==
    [][(pc = "ascii" /\ (cornersRead' = cornersRead + 1
                          \/ (pc' = "error" /\ err'.msg \in {"vertex outside facet/loop",
                                                             "vertex needs x y z",
                                                             "invalid vertex"})))
          => (loopArmed = "yes" \/ (pc' = "error" /\ err'.line = lineNum + 1))]_vars

\* C8 (winding reversal, I3): while a decoder runs and when it returns
\* without cleaning, face i holds the indices given to the corners of source
\* triangle i in the order [idx(v0), idx(v2), idx(v1)], each index designates
\* a vertex in the grid cell of its corner, and the edge cross product of the
\* stored face is the negation of the one taken in source order.
WindingReversed ==
    (pc \in {"binary", "ascii"} \/ (pc = "done" /\ lastOp = "LoadBytes" /\ ~opts.CleanMesh))
        => /\ Len(Faces) = Len(srcTris)
           /\ \A i \in 1..Len(Faces) :
                 LET t == srcTris[i]
                 IN  /\ Faces[i].V = <<t.idx[1], t.idx[3], t.idx[2]>>
                     /\ \A k \in 1..3 :
                           quantizePosition(PosOf(Vertices, t.idx[k]), opts.MergeTolerance)
                               = quantizePosition(t.p[k], opts.MergeTolerance)
                     /\ FaceCross(Vertices, Faces[i])
                           = V3Neg(FaceCross(Vertices, Face(t.idx[1], t.idx[2], t.idx[3])))

\* C8: a load has returned a triangle that is not degenerate
WindingReversedWitness ==
    /\ pc = "done"
    /\ lastOp = "LoadBytes"
    /\ ~opts.CleanMesh
    /\ Len(Faces) >= 1
    /\ FaceCross(Vertices, Faces[1]) # Zero3

\* the normal a, a record [v, q], is the vector n
NormalIs(a, n) ==
    \A k \in 1..3 : a.v[k] * a.v[k] = a.q * n[k] * n[k] /\ a.v[k] * n[k] >= 0

\* C9 (stored normals come from the file): after the load of a single
\* triangle with a declared normal n of unit length, under any configuration,
\* each vertex of the returned triangle carries n.
StoredNormalIsDeclared ==
    (/\ pc = "done" /\ lastOp = "LoadBytes"
     /\ Len(srcTris) = 1 /\ cornersRead = 3 /\ Len(Faces) = 1
     /\ srcTris[1].declared /\ V3Dot(srcTris[1].n, srcTris[1].n) = 1)
        => \A k \in 1..3 :
              NormalIs(Vertices[Faces[1].V[k] + 1].Normal, srcTris[1].n)

\* the length of the normal a is within 1e-3 of 1
UnitWithin(a) ==
    /\ 1000000 * V3Dot(a.v, a.v) >= 998001 * a.q
    /\ 1000000 * V3Dot(a.v, a.v) <= 1002001 * a.q

\* C10 (unit normals): after any successful load every vertex normal has
\* length 1 within 1e-3 or is the zero vector.
NormalsUnitLength ==
    (pc = "done" /\ lastOp = "LoadBytes")
        => \A i \in 1..Len(Vertices) :
              Vertices[i].Normal.v = Zero3 \/ UnitWithin(Vertices[i].Normal)

CornersIndexed ==
    {[p |-> srcTris[i].p[k], idx |-> srcTris[i].idx[k]] :
        i \in 1..Len(srcTris), k \in 1..3}

\* every coordinate of a and b differs by less than t
WithinTolerance(a, b, t) == \A k \in 1..3 : AbsI(a[k] - b[k]) < t

\* C12: with welding enabled and a merge tolerance t > 0, two corners of one
\* load whose coordinates each differ by less than t have the same vertex
\* index
WeldsWithinTolerance ==
    (~opts.NoDedupe /\ opts.MergeTolerance > 0)
        => \A a, b \in CornersIndexed :
              WithinTolerance(a.p, b.p, opts.MergeTolerance) => a.idx = b.idx


\* face i (counted from 0) references the fresh vertices 3i, 3i+2, 3i+1 and
\* the vertex list holds exactly three vertices per face
FreshVerticesPerFace ==
    /\ Len(Vertices) = 3 * Len(Faces)
    /\ \A i \in 1..Len(Faces) :
          Faces[i].V = <<3 * (i - 1), 3 * (i - 1) + 2, 3 * (i - 1) + 1>>

RECURSIVE TextDecodeFold(_, _, _, _, _, _)
TextDecodeFold(tris, i, V, vm, F, o) ==
    IF i > Len(tris) THEN [V |-> V, F |-> F]
    ELSE LET cn == Normalize(RawN(tris[i].n))
             w1 == Weld(V, vm, tris[i].p[1], cn, o)
             w2 == Weld(w1.V, w1.vm, tris[i].p[2], cn, o)
             w3 == Weld(w2.V, w2.vm, tris[i].p[3], cn, o)
         IN  TextDecodeFold(tris, i + 1, w3.V, w3.vm,
                            Append(F, EmitFace(<<w1.idx, w2.idx, w3.idx>>)), o)

\* the meshes loadASCII may return for that text: one, or one per map
\* iteration order of the cleanup when CleanMesh is set
loadASCIIResults(tris, o) ==
    LET d  == TextDecodeFold(tris, 1, <<>>, EmptyMap, <<>>, o)
        v1 == FinishNormals(d.V, d.F, o)
    IN  IF o.CleanMesh
        THEN {[Vertices |-> Clean(v1, d.F, order).Vertices,
               Faces |-> Clean(v1, d.F, order).Faces] :
                 order \in KeyOrders(DegenerateKept(v1, d.F))}
        ELSE {[Vertices |-> v1, Faces |-> d.F]}

\* C14: the mesh returned for a binary buffer is a mesh the text decoder
\* returns, under the same configuration, for the same triangles (declared
\* normal and corners) written as text: equal vertex and face counts, index
\* triples, positions and normals
DualFormatAgreement ==
    (pc = "done" /\ lastOp = "LoadBytes" /\ format = "binary")
        => [Vertices |-> Vertices, Faces |-> Faces] \in loadASCIIResults(srcTris, opts)


\* C15: the binary decoder returns a mesh only for a buffer whose length is
\* exactly 84 + count*50; shorter buffers and buffers with bytes after the
\* declared records are rejected
BinarySizeIsExact ==
    (pc = "done" /\ lastOp = "LoadBytes" /\ format = "binary") => LenEqualsExact(data)


\* the line read last held a field that does not parse as a float where a
\* number belongs
NonNumericLine == lastLine \in {"facet bad", "facet short bad", "vertex bad"}

\* the load has been aborted with an error carrying the number of the line
\* read last, and no mesh has been returned
AbortedAtLastLine ==
    /\ pc = "error"
    /\ err.line = lineNum
    /\ Vertices = <<>> /\ Faces = <<>>

\* C16: a `facet normal` or `vertex` line with a numeric field that does not
\* parse as a float aborts the load with an error carrying the 1-based
\* number of that line, counted over all lines read, and no mesh is returned
NonNumericAborts == NonNumericLine => AbortedAtLastLine


\* the line read last was a `facet` line lacking `normal` plus three
\* numbers, or a `vertex` line with fewer than three coordinates
TooFewFieldsLine == lastLine \in {"facet short", "facet short bad", "vertex short"}

\* C17: a recognized directive with too few fields aborts the load with a
\* format error carrying its 1-based line number and is never accepted
TooFewFieldsAborts ==
    TooFewFieldsLine => (pc = "error" /\ err.line = lineNum)


\* the least and the greatest k-th coordinate among the positions of V
LeastCoord(V, k) ==
    CHOOSE x \in {V[i].Position[k] : i \in 1..Len(V)} :
        \A i \in 1..Len(V) : x <= V[i].Position[k]

GreatestCoord(V, k) ==
    CHOOSE x \in {V[i].Position[k] : i \in 1..Len(V)} :
        \A i \in 1..Len(V) : x >= V[i].Position[k]

\* C18: a CalculateBounds call on a mesh with at least one vertex leaves
\* BoundsMin and BoundsMax at the componentwise minimum and maximum of the
\* positions of all vertices; on a mesh without vertices it leaves the
\* bounds as they were
BoundsCorrect ==
    [][lastOp' = "CalculateBounds"
         => IF Len(Vertices) = 0
            THEN UNCHANGED <<BoundsMin, BoundsMax>>
            ELSE /\ BoundsMin' = <<LeastCoord(Vertices, 1), LeastCoord(Vertices, 2),
                                   LeastCoord(Vertices, 3)>>
                 /\ BoundsMax' = <<GreatestCoord(Vertices, 1), GreatestCoord(Vertices, 2),
                                   GreatestCoord(Vertices, 3)>>]_vars

\* C18: CalculateBounds has returned on a mesh of three vertices whose box is
\* spanned by two of them, neither being the first of the list
BoundsCorrectWitness ==
    /\ lastOp = "CalculateBounds"
    /\ Len(Vertices) = 3
    /\ BoundsMin = <<-1, -2, -3>> /\ BoundsMax = <<4, 5, 6>>
    /\ Vertices[1].Position = <<0, 0, 0>>

\* what the caller sees of a clone
CloneContent(c) == <<c.Name, c.Vertices, c.Faces, c.BoundsMin, c.BoundsMax>>

\* the edits and calls made on the clone
CloneOps == {"clone.SetPosition", "clone.AppendVertex", "clone.Transform",
             "clone.CleanMesh"}

\* C20: Clone returns a mesh equal to m in name, vertices, faces, materials
\* and bounds; every later edit of m, Transform and cleanup stage leaves the
\* clone's name, vertices, faces and bounds as they are, and every edit of
\* the clone leaves those of m as they are
CloneIsDeepCopy ==
    [][/\ lastOp' = "Clone"
            => /\ clone'.exists
               /\ CloneContent(clone') = <<Name', Vertices', Faces', BoundsMin', BoundsMax'>>
               /\ clone'.Materials = Materials'
       /\ (clone.exists /\ lastOp' \notin CloneOps)
            => CloneContent(clone') = CloneContent(clone)
       /\ lastOp' \in CloneOps
            => UNCHANGED <<Name, Vertices, Faces, BoundsMin, BoundsMax>>]_vars

\* C20: a vertex of m has been moved after the clone was taken, and the
\* clone still has the vertex where it was
CloneIsDeepCopyWitness ==
    /\ clone.exists
    /\ lastOp = "SetPosition"
    /\ Len(clone.Vertices) >= 1
    /\ Len(Vertices) = Len(clone.Vertices)
    /\ Vertices # clone.Vertices


\* C19 (I2): in a mesh a loader has returned, and after any cleanup stage on
\* it, every face's Material is -1 or an index into the mesh's Materials
MaterialIndexValid ==
    pc = "done"
        => \A i \in 1..Len(Faces) :
              \/ Faces[i].Material = -1
              \/ Faces[i].Material \in 0..(Len(Materials) - 1)

RepeatsIndex(f) == f.V[1] = f.V[2] \/ f.V[2] = f.V[3] \/ f.V[1] = f.V[3]

\* |(v1-v0) x (v2-v0)| <= 1e-10, on the coordinates the state stands for
MagnitudeAtMostMin(V, f) ==
    IF gridUnit = "fine" THEN 225 * V3Dot(FaceCross(V, f), FaceCross(V, f)) <= 100
    ELSE V3Dot(FaceCross(V, f), FaceCross(V, f)) = 0

\* |(v1-v0) x (v2-v0)| / 2 > 1e-10, on the coordinates the state stands for
HalfMagnitudeAboveMin(V, f) ==
    IF gridUnit = "fine" THEN 225 * V3Dot(FaceCross(V, f), FaceCross(V, f)) > 400
    ELSE V3Dot(FaceCross(V, f), FaceCross(V, f)) > 0

\* C22 (degenerate-face rule, as the code has it): RemoveDegenerateFaces
\* keeps a face if and only if its three vertex indices are distinct and
\* half the magnitude of the cross product of its edge vectors (the area of
\* the triangle) exceeds 1e-10; the kept faces stay in their relative order
\* and the return value is the number of faces removed.
DegenerateRuleByArea ==
    [][(lastOp' = "RemoveDegenerateFaces")
          => /\ Faces' = SelectSeq(Faces, LAMBDA f : /\ ~RepeatsIndex(f)
                                                     /\ HalfMagnitudeAboveMin(Vertices, f))
             /\ removed' = Len(Faces) - Len(Faces')]_vars

\* C22: RemoveDegenerateFaces has run on a mesh of small triangles, has
\* removed a face and has kept one
DegenerateRuleWitness ==
    /\ lastOp = "RemoveDegenerateFaces"
    /\ gridUnit = "fine"
    /\ scanCap = [lines |-> MaxLines, verts |-> MaxTextVerts]
    /\ arch = "amd64"
    /\ parked = NoFrame
    /\ removed >= 1
    /\ Len(Faces) >= 1

\* C22 as stated: the faces removed are those that repeat an index or whose
\* cross product has a magnitude of at most 1e-10
DegenerateRuleByMagnitude ==
    [][(lastOp' = "RemoveDegenerateFaces")
          => /\ Faces' = SelectSeq(Faces, LAMBDA f : /\ ~RepeatsIndex(f)
                                                     /\ ~MagnitudeAtMostMin(Vertices, f))
             /\ removed' = Len(Faces) - Len(Faces')]_vars

IsReferenced(F, i) == \E k \in 1..Len(F) : \E c \in 1..3 : F[k].V[c] = i

\* C23 (no unreferenced vertex survives compaction): after
\* RemoveUnreferencedVertices, and after CleanMesh, every vertex of the vertex
\* list is referenced by at least one face, for any number of faces.
NoUnreferencedVertex ==
    (pc = "done" /\ lastOp \in {"RemoveUnreferencedVertices", "CleanMesh"})
        => \A i \in 0..(Len(Vertices) - 1) : IsReferenced(Faces, i)

\* the vertices of V that a face of F references, in the order of V
ReferencedSubsequence(V, F) ==
    LET idx == {i \in 1..Len(V) : IsReferenced(F, i - 1)}
    IN  [k \in 1..Cardinality(idx) |->
            V[CHOOSE i \in idx : Cardinality({j \in idx : j < i}) = k - 1]]

\* every face of G designates, corner by corner, a vertex of W equal to the
\* one the face of F at the same place designates in V
SameCorners(V, F, W, G) ==
    /\ Len(G) = Len(F)
    /\ \A k \in 1..Len(F) :
          /\ [G[k] EXCEPT !.V = F[k].V] = F[k]
          /\ \A c \in 1..3 : W[G[k].V[c] + 1] = V[F[k].V[c] + 1]

\* C24 (compaction preserves geometry): RemoveUnreferencedVertices leaves the
\* subsequence of the referenced vertices in their original order, and every
\* face, at its place in the list, designates the same three vertices
\* (position, normal, uv) as before.
CompactionPreservesGeometry ==
    [][(pc = "done" /\ lastOp' = "RemoveUnreferencedVertices")
          => /\ Vertices' = ReferencedSubsequence(Vertices, Faces)
             /\ SameCorners(Vertices, Faces, Vertices', Faces')]_vars

\* the two faces have the same three indices, in any order
SameIndices(f, g) ==
    \A v \in 0..MaxVerts :
        Cardinality({c \in 1..3 : f.V[c] = v}) = Cardinality({c \in 1..3 : g.V[c] = v})

\* the elements of S at the places idx, in the order of S
Pick(S, idx) ==
    [k \in 1..Cardinality(idx) |->
        S[CHOOSE i \in idx : Cardinality({j \in idx : j < i}) = k - 1]]

\* C25 (duplicate removal keeps the first face of a key): DeduplicateFaces
\* keeps exactly the faces that no earlier face of the list shares its three
\* indices with, in their relative order, and returns the number of faces
\* before minus the number after.
DedupKeepsFirst ==
    [][(pc = "done" /\ lastOp' = "DeduplicateFaces")
          => /\ Faces' = Pick(Faces, {i \in 1..Len(Faces) :
                                        \A j \in 1..(i - 1) : ~SameIndices(Faces[j], Faces[i])})
             /\ removed' = Len(Faces) - Len(Faces')]_vars

\* C25: DeduplicateFaces has removed a face and has kept another
DedupKeepsFirstWitness ==
    /\ pc = "done"
    /\ lastOp = "DeduplicateFaces"
    /\ removed >= 1
    /\ Len(Faces) >= 1

\* an `endfacet` line is being read
EndFacetStep == pc = "ascii" /\ pc' = "ascii" /\ lastLine' = "endfacet"

\* the input ends inside a facet that no `endfacet` line closed
UnterminatedEnd == pc = "ascii" /\ pc' = "done" /\ inFacet

\* the accumulator holds, in order, one vertex per vertex line read since
\* the last `facet` line, each at the position its line gave (merge
\* tolerance 0: a line is welded only to a vertex at its own position)
AccumulatedSinceFacet ==
    /\ Len(faceVerts) = Len(facetSrc.p)
    /\ \A k \in 1..Len(faceVerts) : PosOf(Vertices, faceVerts[k]) = facetSrc.p[k]

\* every position in ps is the position of a vertex of V
PositionsKept(ps, V) ==
    \A k \in 1..Len(ps) : \E i \in 1..Len(V) : V[i].Position = ps[k]

\* C26 (face emission in the text decoder, as the code has it): an
\* `endfacet` line appends one face on the first three vertices accumulated
\* since the last `facet` line (first, third, second) when there are at
\* least three, appends nothing otherwise, and clears the accumulator; a
\* facet left open at the end of input raises no error and adds no face, and
\* without clean_mesh the load returns the faces and vertices read so far,
\* the vertices of the open facet included.
TextFaceEmission ==
    [][/\ EndFacetStep =>
            /\ AccumulatedSinceFacet
            /\ Faces' = IF Len(faceVerts) >= 3
                        THEN Append(Faces, [V |-> <<faceVerts[1], faceVerts[3], faceVerts[2]>>,
                                            Material |-> -1])
                        ELSE Faces
            /\ faceVerts' = <<>>
            /\ Vertices' = Vertices
       /\ UnterminatedEnd =>
            /\ err' = NoErr
            /\ Len(Faces') <= Len(Faces)
            /\ ~opts.CleanMesh =>
                  /\ Faces' = Faces
                  /\ Len(Vertices') = Len(Vertices)
                  /\ PositionsKept(facetSrc.p, Vertices')]_vars

\* C26: a load without cleaning has ended inside a second facet, after a
\* first facet gave a face; the vertex of the open facet is in the list
TextFaceEmissionWitness ==
    /\ pc = "done"
    /\ err = NoErr
    /\ ~opts.CleanMesh
    /\ Len(Faces) = 1
    /\ cornersRead = 4
    /\ Len(Vertices) = 4

\* C26 as stated: whatever the options, the vertices an open facet has
\* collected are in the vertex list the load returns
OpenFacetVerticesStay ==
    [][UnterminatedEnd => (err' = NoErr /\ PositionsKept(facetSrc.p, Vertices'))]_vars

\* the face lists its three indices in ascending cyclic order
CyclicAscending(f) ==
    \/ f.V[1] < f.V[2] /\ f.V[2] < f.V[3]
    \/ f.V[2] < f.V[3] /\ f.V[3] < f.V[1]
    \/ f.V[3] < f.V[1] /\ f.V[1] < f.V[2]

\* sets of three distinct vertex indices of V that span a triangle which
\* RemoveDegenerateFaces keeps
TriangleSets(V) ==
    {T \in SUBSET (0..(Len(V) - 1)) :
        /\ Cardinality(T) = 3
        /\ \E a, b, c \in T : a < b /\ b < c /\ DegenerateKeepFace(V, Face(a, b, c))}

\* number of faces of F whose corners are at the positions ps, with the
\* winding parity asc
CountAt(V, F, ps, asc) ==
    Cardinality({i \in 1..Len(F) :
                    /\ {PosOf(V, F[i].V[c]) : c \in 1..3} = ps
                    /\ Cardinality({F[i].V[c] : c \in 1..3}) = 3
                    /\ CyclicAscending(F[i]) = asc})

PositionsOf(V, T) == {PosOf(V, i) : i \in T}

Least(a, b) == IF a <= b THEN a ELSE b

\* C27 (per-vertex-set outcome of cleaning): for every set of three distinct
\* indices spanning a non-degenerate triangle on which the mesh holds P faces
\* of one winding parity and N of the other, RemoveInternalFaces removes
\* min(P,N) faces of each parity, and after CleanMesh no face on the set is
\* left when P = N and exactly one, of the majority parity, when P # N; this
\* holds for every iteration order over the groups.
PerVertexSetOutcome ==
    [][\A T \in TriangleSets(Vertices) :
          LET ps == PositionsOf(Vertices, T)
              P  == CountAt(Vertices, Faces, ps, TRUE)
              N  == CountAt(Vertices, Faces, ps, FALSE)
          IN  /\ (pc = "done" /\ lastOp' = "RemoveInternalFaces") =>
                    /\ CountAt(Vertices', Faces', ps, TRUE) = P - Least(P, N)
                    /\ CountAt(Vertices', Faces', ps, FALSE) = N - Least(P, N)
              /\ (pc = "done" /\ lastOp' = "CleanMesh") =>
                    /\ CountAt(Vertices', Faces', ps, TRUE) = (IF P > N THEN 1 ELSE 0)
                    /\ CountAt(Vertices', Faces', ps, FALSE) = (IF N > P THEN 1 ELSE 0)]_vars

\* C27: CleanMesh has run on three faces on one vertex set, two of one
\* winding and one of the other, and has left one face
PerVertexSetOutcomeWitness ==
    /\ pc = "done"
    /\ lastOp = "CleanMesh"
    /\ removed = MaxFaces - 1
    /\ Len(Faces) = 1
    /\ pairCase = "none"

\* C28 (bounds of a cleaned load): after a successful load with clean_mesh
\* set, BoundsMin and BoundsMax are the componentwise minimum and maximum
\* of the positions of the vertices the returned mesh holds.
CleanedLoadBounds ==
    (pc = "done" /\ lastOp = "LoadBytes" /\ err = NoErr /\ opts.CleanMesh
                 /\ Len(Vertices) >= 1)
        => /\ BoundsMin = <<LeastCoord(Vertices, 1), LeastCoord(Vertices, 2),
                            LeastCoord(Vertices, 3)>>
           /\ BoundsMax = <<GreatestCoord(Vertices, 1), GreatestCoord(Vertices, 2),
                            GreatestCoord(Vertices, 3)>>

\* merge_tolerance, or 1e-12 when it is 0 or negative; 0 stands for 1e-12
\* among whole coordinates
EffectiveTolerance == IF opts.MergeTolerance <= 0 THEN 0 ELSE opts.MergeTolerance

\* C29 (welding never merges distant points): with welding enabled, two
\* corners of one load that were given the same vertex index differ by at
\* most the effective tolerance in every coordinate.
WeldedOnlyIfClose ==
    (pc = "corner" /\ ~opts.NoDedupe)
        => \A k, l \in 1..Len(faceVerts) :
              faceVerts[k] = faceVerts[l]
                  => \A c \in 1..3 :
                        AbsI(facetSrc.p[k][c] - facetSrc.p[l][c]) <= EffectiveTolerance

\* C30 (format detection and letter case): a buffer of text whose first
\* token is `solid` in any letter case, and whose length is not
\* 84 + count*50, is classified Text and handed to the text decoder.
SolidAnyCaseIsText ==
    (pc # "idle" /\ data.prefix \in {"solid", "SOLID", "Solid"}
                 /\ U32(data.len) # expectedSize(triCountOf(data)))
        => (format = "text" /\ pc = "ascii")

\* loadBinary's record loop over the triangles tris read on their own, from
\* an empty mesh and an empty welding map
RECURSIVE BinaryDecodeFold(_, _, _, _, _, _)
BinaryDecodeFold(tris, i, V, vm, F, o) ==
    IF i > Len(tris) THEN [V |-> V, F |-> F]
    ELSE LET w1 == Weld(V, vm, tris[i].p[1], RawN(tris[i].n), o)
             w2 == Weld(w1.V, w1.vm, tris[i].p[2], RawN(tris[i].n), o)
             w3 == Weld(w2.V, w2.vm, tris[i].p[3], RawN(tris[i].n), o)
         IN  BinaryDecodeFold(tris, i + 1, w3.V, w3.vm,
                              Append(F, EmitFace(<<w1.idx, w2.idx, w3.idx>>)), o)

\* the mesh loadBinary returns for those triangles when no other load runs
\* (no cleanup)
LoadedAlone(tris, o) ==
    LET d  == BinaryDecodeFold(tris, 1, <<>>, EmptyMap, <<>>, o)
        v1 == FinishNormals(d.V, d.F, o)
        b  == CalculateBounds(v1, Zero3, Zero3)
    IN  [Vertices |-> v1, Faces |-> d.F, BoundsMin |-> b[1], BoundsMax |-> b[2]]

====
